---- MODULE Spec2Model ----
(***************************************************************************)
(* Motia uptime monitor: the persisted status / metrics / history store    *)
(* (src/lib/stream.ts), the token-bucket rate limiter                      *)
(* (src/steps/health.step.ts, lines 259-397) and the TerminalAlerter       *)
(* handler (src/unnamed/part_002).                                         *)
(*                                                                         *)
(* Numbers.  Date.now() is `now`, in milliseconds.  A bucket's tokens are  *)
(* kept as the exact integer  tokens * WindowMs  (so "tokens >= 1" reads   *)
(* "tokens >= WindowMs" and a refill of  timePassed * refillRate  tokens   *)
(* adds  timePassed * burst).  Metrics that the code keeps as quotients    *)
(* are exact fractions <<numerator, denominator>> in lowest terms.         *)
(***************************************************************************)
EXTENDS Integers, Sequences, FiniteSets, TLC

VARIABLES
    now,            \* Date.now(), ms
    burst,          \* envConfig.alertBurst, fixed at module load
    windowSec,      \* envConfig.alertWindowSec, fixed at module load
    statusStore,    \* contents of STORE_FILE: url -> StatusResult | None
    metricsStore,   \* contents of METRICS_FILE: url -> SiteMetrics | None
    historyStore,   \* contents of HISTORY_FILE: sequence of StatusResult
    buckets,        \* the rate limiter's Map: url -> TokenBucket | None
    pc,             \* per handler invocation: where it is suspended
    input,          \* per handler invocation: the check.result event data
    previousResult, \* per handler invocation: what getPreviousStatus returned
    notes,          \* every notification shown so far, in order
    persisted,      \* every result updateLastStatus stored in all three files
                    \* since the last clear
    clearedAt,      \* how many notifications had been shown at the last clear
    nchecks,        \* number of check.result events delivered so far
    fault,          \* what the file system refuses in DATA_DIR: nothing, reads, writes
    call,           \* the last direct call of the rate limiter's API and its result
    checker,        \* the website checker's invocation: where it is suspended, its locals
    emitted         \* every event the checker called emit with, in order

vars == <<now, burst, windowSec, statusStore, metricsStore, historyStore,
          buckets, pc, input, previousResult, notes, persisted, clearedAt,
          nchecks, fault, call, checker, emitted>>

(***************************************************************************)
(* Bounds of the model.                                                    *)
(***************************************************************************)
MaxChecks == 3
FlapChecks == 6
HistoryCap == 2
MaxLimit == 3
MetricChecks == 10
SystemChecks == 3
MeanChecks == 8
MantissaBits == 8
CheckRequests == 2
HealthChecks == 4
BoundsChecks == 5
OutageChecks == 4

Urls == {"A", "B"}
Statuses == {"UP", "DOWN"}
RespTimes == {10}
SystemRespTimes == {10, 40}
MeanRespTimes == {1, 10}
BoundsRespTimes == {0, 1, 63}
TimeSteps == {500}
Times == {0, 500, 1000}
Bursts == {1, 2}
WindowSecs == {1}
Procs == {1, 2}
Faults == {"none", "read", "write"}

\* null / undefined where an object is expected (a record, a bucket).
None == [absent |-> TRUE]
\* null where a string is expected (StatusResult.error).
Null == "null"
\* An optional timestamp that is not set (SiteMetrics.lastUpTime, lastDownTime).
Never == -1
\* Infinity, the initial minResponseTime; every response time is >= 0.
Infinity == -1
\* Before the first direct call of the rate limiter's API.
NoCall == [op |-> "none", arg |-> "", ret |-> 0]
\* null where a status code is expected (StatusResult.code).
NullCode == -1
\* No error: what the handler's catch has when nothing was thrown.
NoError == [name |-> "", message |-> "", code |-> Null]
\* What the probe of a request did, before it has done anything.
NoOutcome == [kind |-> "none", status |-> NullCode, error |-> NoError]
\* The website checker before its first request.
NoCheck == [pc |-> "idle", url |-> "", startTime |-> 0, outcome |-> NoOutcome,
            result |-> None, handled |-> 0]

Min(a, b) == IF a <= b THEN a ELSE b
Max(a, b) == IF a >= b THEN a ELSE b

RECURSIVE GCD(_, _)
GCD(a, b) == IF b = 0 THEN a ELSE GCD(b, a % b)

\* An exact fraction n/d (d > 0, n >= 0) in lowest terms.
Frac(n, d) == LET g == GCD(n, d) IN IF g = 0 THEN <<0, 1>> ELSE <<n \div g, d \div g>>

FracLeq(x, y) == x[1] * y[2] <= y[1] * x[2]

\* The sum and the product of two fractions, and a fraction divided by a count.
FracAdd(x, y) == Frac(x[1] * y[2] + y[1] * x[2], x[2] * y[2])

FracTimes(x, y) == Frac(x[1] * y[1], x[2] * y[2])

FracOver(x, n) == Frac(x[1], x[2] * n)

RECURSIVE Pow2(_)
Pow2(k) == IF k = 0 THEN 1 ELSE 2 * Pow2(k - 1)

\* x / 2^e
Scaled(x, e) == IF e >= 0 THEN Frac(x[1], x[2] * Pow2(e)) ELSE Frac(x[1] * Pow2(0 - e), x[2])

\* The binary exponent e of x > 0: 2^(MantissaBits-1) <= x / 2^e < 2^MantissaBits,
\* searched from k; q is x / 2^k.
RECURSIVE exponentOf(_, _)
RECURSIVE exponentFrom(_, _, _)
exponentFrom(q, x, k) ==
    IF FracLeq(<<Pow2(MantissaBits), 1>>, q) THEN exponentOf(x, k + 1)
    ELSE IF FracLeq(<<Pow2(MantissaBits - 1), 1>>, q) THEN k
    ELSE exponentOf(x, k - 1)

exponentOf(x, k) == exponentFrom(Scaled(x, k), x, k)

\* The integer nearest to q, the even one of two.
nearestInteger(m, rest, d) ==
    IF 2 * rest > d \/ (2 * rest = d /\ m % 2 = 1) THEN m + 1 ELSE m

\* The significand q rounded, with its exponent e.
roundAt(q, e) == Scaled(<<nearestInteger(q[1] \div q[2], q[1] % q[2], q[2]), 1>>, 0 - e)

roundWith(x, e) == roundAt(Scaled(x, e), e)

\* The exact value x > 0 rounded to the nearest binary floating-point number
\* with a significand of MantissaBits bits, ties to even.
roundToNearest(x) == roundWith(x, exponentOf(x, 0))

\* The negative of a fraction.
Neg(x) == <<0 - x[1], x[2]>>

\* The exact value rounded, whatever its sign.
\* A JavaScript number has a significand of 53 bits; the model's has
\* MantissaBits.  The exponent range is not limited: there is no overflow
\* and no subnormal number.
flOf(x) ==
    IF x[1] = 0 THEN x
    ELSE IF x[1] < 0 THEN Neg(roundToNearest(Neg(x)))
    ELSE roundToNearest(x)

\* The result of an arithmetic operation on numbers: its exact value rounded
\* (the operand is evaluated once).
fl(x) == CHOOSE r \in {flOf(v) : v \in {x}} : TRUE

(***************************************************************************)
(* Persistence layer, src/lib/stream.ts                                    *)
(***************************************************************************)

\* A StatusResult as the checker emits it (types: health.step.ts 135-147).
StatusResult(url, status, responseTime, checkedAt) ==
    [url |-> url, status |-> status,
     code |-> IF status = "UP" THEN 200 ELSE 500,
     responseTime |-> responseTime, checkedAt |-> checkedAt, error |-> Null]

\* Object.entries / Object.keys of a stored map: the urls that have a value.
Keys(m) == {u \in DOMAIN m : m[u] # None}

\* Variant of loadStatusStore: a failed read yields what the file held.
loadStatusStore_ignoresFault == statusStore

\* loadStatusStore: the parsed file; {} when the file does not exist or the
\* read throws (the catch of 31-35).
loadStatusStore ==
    IF fault = "read" THEN [u \in DOMAIN statusStore |-> None] ELSE statusStore

\* saveStatusStore(store): what the file holds afterwards; a write that throws
\* is caught and leaves the file as it was (43-46).
saveStatusStore(store) == IF fault = "write" THEN statusStore ELSE store

\* loadMetricsStore: the parsed file; {} when the file does not exist or the
\* read throws.
loadMetricsStore ==
    IF fault = "read" THEN [u \in DOMAIN metricsStore |-> None] ELSE metricsStore

\* saveMetricsStore(metrics): what the file holds afterwards.
saveMetricsStore(metrics) == IF fault = "write" THEN metricsStore ELSE metrics

\* The SiteMetrics a url starts from when it has none (stream.ts 144-153).
InitialMetrics(url) ==
    [url |-> url, averageResponseTime |-> <<0, 1>>, uptimePercentage |-> <<100, 1>>,
     totalChecks |-> 0, successfulChecks |-> 0, consecutiveFailures |-> 0,
     maxResponseTime |-> 0, minResponseTime |-> Infinity,
     lastUpTime |-> Never, lastDownTime |-> Never]

\* Math.min(existing.minResponseTime, responseTime) with Infinity as the start.
MathMin(m, x) == IF m = Infinity THEN x ELSE Min(m, x)

\* Variant of consecutiveFailuresAfter: an UP result does not reset the count.
consecutiveFailuresAfter_neverReset(failures, up) ==
    IF up THEN failures ELSE failures + 1

\* consecutiveFailures after one more result (157-164).
consecutiveFailuresAfter(failures, up) == IF up THEN 0 ELSE failures + 1

\* Variant of uptimePercentageOf: the ratio, not multiplied by 100.
uptimePercentageOf_ratio(successfulChecks, totalChecks) ==
    Frac(successfulChecks, totalChecks)

\* (successfulChecks / totalChecks) * 100  (175-176)
uptimePercentageOf(successfulChecks, totalChecks) ==
    Frac(successfulChecks * 100, totalChecks)

\* Variant of averageResponseTimeAfter: the mean of the old average and the
\* new response time.
averageResponseTimeAfter_halfway(avg, totalChecks, responseTime) ==
    fl(FracOver(fl(FracAdd(avg, <<responseTime, 1>>)), 2))

\* (existing.averageResponseTime * (existing.totalChecks - 1) + responseTime)
\* / existing.totalChecks, each operation rounded (168-170); totalChecks is
\* the count already incremented.
averageResponseTimeAfter(avg, totalChecks, responseTime) ==
    fl(FracOver(fl(FracAdd(fl(FracTimes(avg, <<totalChecks - 1, 1>>)),
                           <<responseTime, 1>>)),
                totalChecks))

\* updateSiteMetrics: the metrics map after recording `result`.
updateSiteMetrics(metrics, result, previous) ==
    LET existing == IF metrics[result.url] # None THEN metrics[result.url]
                    ELSE InitialMetrics(result.url)
        total == existing.totalChecks + 1
        up == result.status = "UP"
        succ == IF up THEN existing.successfulChecks + 1 ELSE existing.successfulChecks
        avg == existing.averageResponseTime
        updated ==
            [existing EXCEPT
                !.totalChecks = total,
                !.successfulChecks = succ,
                !.consecutiveFailures = consecutiveFailuresAfter(@, up),
                !.lastUpTime = IF up THEN result.checkedAt ELSE @,
                !.lastDownTime = IF up THEN @ ELSE result.checkedAt,
                !.averageResponseTime =
                    averageResponseTimeAfter(avg, total, result.responseTime),
                !.maxResponseTime = Max(@, result.responseTime),
                !.minResponseTime = MathMin(@, result.responseTime),
                !.uptimePercentage = uptimePercentageOf(succ, total)]
    IN [metrics EXCEPT ![result.url] = updated]

\* Variant of addToHistory: the log is never cut.
addToHistory_uncapped(history, result) == Append(history, result)

\* Variant of addToHistory: the cut keeps the oldest entries (slice(0, cap)).
addToHistory_keepsOldest(history, result) ==
    LET pushed == Append(history, result)
    IN IF Len(pushed) > HistoryCap THEN SubSeq(pushed, 1, HistoryCap) ELSE pushed

\* addToHistory: push, then keep only the last HistoryCap entries; a read or
\* a write that throws is caught and leaves the file as it was (91-94).
addToHistory(history, result) ==
    LET pushed == Append(history, result)
    IN IF fault # "none" THEN history
       ELSE IF Len(pushed) > HistoryCap
       THEN SubSeq(pushed, Len(pushed) - HistoryCap + 1, Len(pushed))
       ELSE pushed

\* Variant of saveLastStatus: the loaded map is saved back without the new entry.
saveLastStatus_dropsEntry(store, result) == store

\* Variant of saveLastStatus: an entry, once written, is never replaced.
saveLastStatus_keepsFirst(store, result) ==
    IF store[result.url] = None THEN [store EXCEPT ![result.url] = result] ELSE store

\* Variant of saveLastStatus: the saved map holds the new entry only.
saveLastStatus_onlyEntry(store, result) ==
    [u \in DOMAIN store |-> IF u = result.url THEN result ELSE None]

\* Variant of saveLastStatus: the entry with the later checkedAt is kept.
saveLastStatus_keepsLatestCheck(store, result) ==
    IF store[result.url] # None /\ store[result.url].checkedAt > result.checkedAt
    THEN store
    ELSE [store EXCEPT ![result.url] = result]

\* The status map updateLastStatus saves: the loaded map with the url's entry
\* replaced by a copy of the result (stream.ts 124-127).
saveLastStatus(store, result) == [store EXCEPT ![result.url] = result]

\* Variant of updateLastStatusThrows: a negative responseTime is let through.
updateLastStatusThrows_allowsNegative(result) ==
    \/ result.url = ""
    \/ result.status \notin Statuses
    \/ result.checkedAt = Never

\* The validation of updateLastStatus (101-121) throws: url missing, status
\* not UP or DOWN, responseTime negative, or checkedAt missing.
updateLastStatusThrows(result) ==
    \/ result.url = ""
    \/ result.status \notin Statuses
    \/ result.responseTime < 0
    \/ result.checkedAt = Never

\* Variant of updateLastStatus: a result equal to the stored one is not recorded.
updateLastStatus_skipsRepeat(result) ==
    IF updateLastStatusThrows(result) \/ loadStatusStore[result.url] = result
    THEN UNCHANGED <<statusStore, metricsStore, historyStore>>
    ELSE /\ statusStore' = saveStatusStore(saveLastStatus(loadStatusStore, result))
         /\ metricsStore' = saveMetricsStore(
                updateSiteMetrics(loadMetricsStore, result, loadStatusStore[result.url]))
         /\ historyStore' = addToHistory(historyStore, result)

\* updateLastStatus(result): validation, then status store, metrics, history.
updateLastStatus(result) ==
    IF updateLastStatusThrows(result)
    THEN UNCHANGED <<statusStore, metricsStore, historyStore>>
    ELSE LET store == loadStatusStore
             previous == store[result.url]
         IN /\ statusStore' = saveStatusStore(saveLastStatus(store, result))
            /\ metricsStore' = saveMetricsStore(
                   updateSiteMetrics(loadMetricsStore, result, previous))
            /\ historyStore' = addToHistory(historyStore, result)

\* getSnapshot(): a copy of every stored record.
getSnapshot == [u \in DOMAIN loadStatusStore |-> loadStatusStore[u]]

\* getPreviousStatus(url) throws: url missing or not a string (200-202).
getPreviousStatusThrows(url) == url = ""

\* Variant of getPreviousStatus: the result of the url's check shown last,
\* whether it was persisted or rate-limited.
getPreviousStatus_lastObserved(url) ==
    LET shown == {i \in 1..Len(notes) : notes[i].result.url = url}
    IN IF shown = {} THEN None
       ELSE notes[CHOOSE i \in shown : \A k \in shown : k <= i].result

\* getPreviousStatus(url): a copy of the stored record, or null.
getPreviousStatus(url) == loadStatusStore[url]

\* Array.prototype.filter
RECURSIVE Filter(_, _)
Filter(s, url) ==
    IF s = <<>> THEN <<>>
    ELSE IF Head(s).url = url THEN <<Head(s)>> \o Filter(Tail(s), url)
    ELSE Filter(Tail(s), url)

\* Array.prototype.slice(start) for an integer start: a negative start counts
\* from the end, and -0 is 0.
Slice(s, start) ==
    LET n == Len(s)
        from == IF start < 0 THEN Max(n + start, 0) ELSE Min(start, n)
    IN SubSeq(s, from + 1, n)

\* Array.prototype.reverse
Reverse(s) == [i \in 1..Len(s) |-> s[Len(s) + 1 - i]]

\* getSiteHistory(url, limit): filter(url).slice(-limit).reverse(); [] when the
\* read throws (247-250).
getSiteHistory(url, limit) ==
    IF fault = "read" THEN <<>>
    ELSE Reverse(Slice(Filter(historyStore, url), 0 - limit))

\* allMetrics.reduce((sum, m) => sum + m[field], 0) over the entries `keys`.
RECURSIVE reduceSum(_, _, _)
reduceSum(allMetrics, keys, field) ==
    IF keys = {} THEN <<0, 1>>
    ELSE LET k == CHOOSE u \in keys : TRUE
         IN FracAdd(reduceSum(allMetrics, keys \ {k}, field), allMetrics[k][field])

\* The same sum with every entry counted totalChecks times.
RECURSIVE reduceWeightedSum(_, _, _)
reduceWeightedSum(allMetrics, keys, field) ==
    IF keys = {} THEN <<0, 1>>
    ELSE LET k == CHOOSE u \in keys : TRUE
         IN FracAdd(reduceWeightedSum(allMetrics, keys \ {k}, field),
                    FracTimes(allMetrics[k][field], <<allMetrics[k].totalChecks, 1>>))

\* The number of checks in all entries.
RECURSIVE sumTotalChecks(_, _)
sumTotalChecks(allMetrics, keys) ==
    IF keys = {} THEN 0
    ELSE LET k == CHOOSE u \in keys : TRUE
         IN sumTotalChecks(allMetrics, keys \ {k}) + allMetrics[k].totalChecks

\* Variant of avgOf: the mean over all checks, each site weighted by its
\* number of checks.
avgOf_weightedByChecks(allMetrics, field, empty) ==
    IF Keys(allMetrics) = {} THEN <<empty, 1>>
    ELSE FracOver(reduceWeightedSum(allMetrics, Keys(allMetrics), field),
                  sumTotalChecks(allMetrics, Keys(allMetrics)))

\* avgUptime and avgResponseTime of getSystemMetrics (288-298): the sum of
\* the field over the metrics' entries divided by their number, or `empty`.
avgOf(allMetrics, field, empty) ==
    IF Keys(allMetrics) = {} THEN <<empty, 1>>
    ELSE FracOver(reduceSum(allMetrics, Keys(allMetrics), field),
                  Cardinality(Keys(allMetrics)))

\* Math.max over a non-empty set of numbers.
MathMax(S) == CHOOSE x \in S : \A y \in S : y <= x

\* getSystemMetrics(): counts from the status map, means from the metrics map.
getSystemMetrics ==
    LET store == loadStatusStore
        metrics == loadMetricsStore
        sites == Keys(store)
    IN [totalSites |-> Cardinality(sites),
        upSites |-> Cardinality({u \in sites : store[u].status = "UP"}),
        downSites |-> Cardinality({u \in sites : store[u].status = "DOWN"}),
        overallUptimePercentage |-> avgOf(metrics, "uptimePercentage", 100),
        averageResponseTime |-> avgOf(metrics, "averageResponseTime", 0),
        lastUpdate |-> IF sites # {} THEN MathMax({store[u].checkedAt : u \in sites})
                       ELSE now]

(***************************************************************************)
(* Rate limiter, src/steps/health.step.ts 269-397                          *)
(***************************************************************************)

\* A JavaScript value given as an option: a number, NaN, undefined or a string.
Num(n) == [t |-> "number", v |-> n]
NaN == [t |-> "NaN", v |-> 0]
Undefined == [t |-> "undefined", v |-> 0]
Str(n) == [t |-> "string", v |-> n]

\* typeof x
TypeOf(x) == IF x.t = "NaN" THEN "number" ELSE x.t

\* !x : undefined, NaN and 0 are falsy; a non-empty string is not.
Falsy(x) == x.t \in {"undefined", "NaN"} \/ (x.t = "number" /\ x.v = 0)

\* Variant of OptionRejected: only the type is looked at.
OptionRejected_typeOnly(x) == TypeOf(x) # "number"

\* !x || typeof x !== "number" || x <= 0  (273, 277)
OptionRejected(x) == Falsy(x) \/ TypeOf(x) # "number" \/ x.v <= 0

\* createRateLimiter({burst, windowSec}) throws (273-279).
createRateLimiterThrows(b, w) == OptionRejected(b) \/ OptionRejected(w)

\* windowSec * 1000: one token is WindowMs units of a bucket's `tokens`.
WindowMs == windowSec * 1000

\* getBucket: the Map after the lazy creation of the url's bucket, full.
getBucket(bs, siteUrl, t) ==
    IF bs[siteUrl] = None
    THEN [bs EXCEPT ![siteUrl] = [tokens |-> burst * WindowMs, lastRefill |-> t]]
    ELSE bs

\* Variant of refillBucket: the sum is not capped.
refillBucket_uncapped(bucket, t) ==
    LET timePassed == t - bucket.lastRefill
    IN IF timePassed > 0
       THEN [tokens |-> bucket.tokens + timePassed * burst, lastRefill |-> t]
       ELSE bucket

\* Variant of refillBucket: the elapsed time is noted but adds no token.
refillBucket_addsNothing(bucket, t) ==
    LET timePassed == t - bucket.lastRefill
    IN IF timePassed > 0
       THEN [tokens |-> bucket.tokens, lastRefill |-> t]
       ELSE bucket

\* refillBucket: tokens += timePassed * refillRate, capped at burst.
refillBucket(bucket, t) ==
    LET timePassed == t - bucket.lastRefill
    IN IF timePassed > 0
       THEN [tokens |-> Min(burst * WindowMs, bucket.tokens + timePassed * burst),
             lastRefill |-> t]
       ELSE bucket

\* The Map after getBucket and refillBucket, which every operation does first.
Refilled(bs, siteUrl, t) ==
    LET got == getBucket(bs, siteUrl, t)
    IN [got EXCEPT ![siteUrl] = refillBucket(got[siteUrl], t)]

\* Variant of consume: a denied call empties the bucket.
consume_deniedDrains(bs, siteUrl, t) ==
    LET r == Refilled(bs, siteUrl, t)
    IN IF r[siteUrl].tokens >= WindowMs
       THEN [buckets |-> [r EXCEPT ![siteUrl].tokens = @ - WindowMs], ret |-> TRUE]
       ELSE [buckets |-> [r EXCEPT ![siteUrl].tokens = 0], ret |-> FALSE]

\* consume(siteUrl): the Map after the call and what the call returns.
consume(bs, siteUrl, t) ==
    LET r == Refilled(bs, siteUrl, t)
    IN IF r[siteUrl].tokens >= WindowMs
       THEN [buckets |-> [r EXCEPT ![siteUrl].tokens = @ - WindowMs], ret |-> TRUE]
       ELSE [buckets |-> r, ret |-> FALSE]

\* isAllowed(siteUrl)
isAllowed(bs, siteUrl, t) ==
    LET r == Refilled(bs, siteUrl, t)
    IN [buckets |-> r, ret |-> r[siteUrl].tokens >= WindowMs]

\* getTokenCount(siteUrl): Math.floor(bucket.tokens)
getTokenCount(bs, siteUrl, t) ==
    LET r == Refilled(bs, siteUrl, t)
    IN [buckets |-> r, ret |-> r[siteUrl].tokens \div WindowMs]

\* Variant of getTimeUntilNextToken: the quotient is rounded down.
getTimeUntilNextToken_floor(bs, siteUrl, t) ==
    LET r == Refilled(bs, siteUrl, t)
        needed == WindowMs - r[siteUrl].tokens
    IN [buckets |-> r,
        ret |-> IF r[siteUrl].tokens >= WindowMs THEN 0 ELSE needed \div burst]

\* getTimeUntilNextToken(siteUrl): Math.ceil((1 - tokens) / refillRate)
getTimeUntilNextToken(bs, siteUrl, t) ==
    LET r == Refilled(bs, siteUrl, t)
        needed == WindowMs - r[siteUrl].tokens
    IN [buckets |-> r,
        ret |-> IF r[siteUrl].tokens >= WindowMs THEN 0
                ELSE (needed + burst - 1) \div burst]

\* reset(): buckets.clear()
reset(bs) == [u \in Urls |-> None]

(***************************************************************************)
(* The same rate limiter with the arithmetic of numbers: tokens is a       *)
(* fraction and every operation rounds its result (fl).  The definitions   *)
(* above compute with exact quotients.                                     *)
(***************************************************************************)

\* The quotient of two fractions, and Math.ceil and Math.floor of a fraction.
FracDiv(x, y) == Frac(x[1] * y[2], x[2] * y[1])

MathCeil(x) == (x[1] + x[2] - 1) \div x[2]

MathFloor(x) == x[1] \div x[2]

\* refillRate = burst / (windowSec * 1000)  (285)
refillRate == fl(Frac(burst, windowSec * 1000))

\* getBucket (290-298)
getBucketNum(bs, siteUrl, t) ==
    IF bs[siteUrl] = None
    THEN [bs EXCEPT ![siteUrl] = [tokens |-> <<burst, 1>>, lastRefill |-> t]]
    ELSE bs

\* Math.min of two fractions.
MathMinOf(x, y) == IF FracLeq(x, y) THEN x ELSE y

\* refillBucket (303-312)
refillBucketNum(bucket, t) ==
    IF t - bucket.lastRefill > 0
    THEN [tokens |-> MathMinOf(<<burst, 1>>,
                               fl(FracAdd(bucket.tokens,
                                          fl(FracTimes(<<t - bucket.lastRefill, 1>>,
                                                       refillRate))))),
          lastRefill |-> t]
    ELSE bucket

\* The Map after getBucket and refillBucket, which every operation does first.
refillIn(got, siteUrl, t) == [got EXCEPT ![siteUrl] = refillBucketNum(@, t)]

RefilledNum(bs, siteUrl, t) == refillIn(getBucketNum(bs, siteUrl, t), siteUrl, t)

\* consume (331-345), r being the Map after the refill.
consumeFrom(r, siteUrl) ==
    IF FracLeq(<<1, 1>>, r[siteUrl].tokens)
    THEN [buckets |-> [r EXCEPT ![siteUrl].tokens = fl(FracAdd(@, <<-1, 1>>))],
          ret |-> TRUE]
    ELSE [buckets |-> r, ret |-> FALSE]

consumeNum(bs, siteUrl, t) == consumeFrom(RefilledNum(bs, siteUrl, t), siteUrl)

\* isAllowed (317-326)
isAllowedFrom(r, siteUrl) == [buckets |-> r, ret |-> FracLeq(<<1, 1>>, r[siteUrl].tokens)]

isAllowedNum(bs, siteUrl, t) == isAllowedFrom(RefilledNum(bs, siteUrl, t), siteUrl)

\* getTokenCount (350-359)
getTokenCountFrom(r, siteUrl) == [buckets |-> r, ret |-> MathFloor(r[siteUrl].tokens)]

getTokenCountNum(bs, siteUrl, t) == getTokenCountFrom(RefilledNum(bs, siteUrl, t), siteUrl)

\* getTimeUntilNextToken (371-386)
getTimeUntilNextTokenFrom(r, siteUrl) ==
    [buckets |-> r,
     ret |-> IF FracLeq(<<1, 1>>, r[siteUrl].tokens) THEN 0
             ELSE MathCeil(fl(FracDiv(fl(FracAdd(<<1, 1>>, Neg(r[siteUrl].tokens))),
                                      refillRate)))]

getTimeUntilNextTokenNum(bs, siteUrl, t) ==
    getTimeUntilNextTokenFrom(RefilledNum(bs, siteUrl, t), siteUrl)

\* Variant of clearAllStatuses: the metrics file is left as it is.
clearAllStatuses_keepsMetrics ==
    /\ statusStore' = saveStatusStore([u \in DOMAIN statusStore |-> None])
    /\ metricsStore' = metricsStore
    /\ historyStore' = IF fault = "write" THEN historyStore ELSE <<>>

\* clearAllStatuses(): the three files emptied, each unless its write throws.
clearAllStatuses ==
    /\ statusStore' = saveStatusStore([u \in DOMAIN statusStore |-> None])
    /\ metricsStore' = saveMetricsStore([u \in DOMAIN metricsStore |-> None])
    /\ historyStore' = IF fault = "write" THEN historyStore ELSE <<>>

(***************************************************************************)
(* TerminalAlerter, src/unnamed/part_002, handler (133-295).  The handler  *)
(* is async: it runs to its first await (162), from there to the await     *)
(* before updateLastStatus (195, 225 or 288), and from there to its end.   *)
(***************************************************************************)

\* One line of terminal output: its kind, the check it is about, the previous
\* status it names, when it was shown and, for a rate-limited transition, the
\* wait it announces.
Note(kind, result, previousStatus, waitMs) ==
    [kind |-> kind, result |-> result, previousStatus |-> previousStatus,
     at |-> now, waitMs |-> waitMs]

\* Variant of Classify: a missing previous record is taken for an unchanged one.
Classify_missingIsUnchanged(result, previous) ==
    IF previous = None THEN "routine"
    ELSE IF result.status = previous.status THEN "routine"
    ELSE "transition"

\* Variant of Classify: every check of a known site is taken for a transition.
Classify_alwaysTransition(result, previous) ==
    IF previous = None THEN "initial" ELSE "transition"

\* Which branch the handler takes (185, 217, 234).
Classify(result, previous) ==
    IF previous = None THEN "initial"
    ELSE IF result.status = previous.status THEN "routine"
    ELSE "transition"

\* Variant of AfterDenied: the rate-limited transition falls through to the store.
AfterDenied_fallsThrough == "storeChange"

\* Where a rate-limited transition goes next: it returns (261).
AfterDenied == "idle"

\* Variant of NoteBeforeStore: the alert names the new status as the previous one.
NoteBeforeStore_namesNewStatus(result, previous) ==
    <<Note("change", result, result.status, 0)>>

\* What the granted transition shows before updateLastStatus (276-278).
NoteBeforeStore(result, previous) == <<Note("change", result, previous.status, 0)>>

\* What the handler shows right after updateLastStatus returns (199-202, 229-230).
NoteAfterStore(at, result) ==
    IF at = "storeInitial" THEN <<Note("initial", result, "none", 0)>>
    ELSE IF at = "storeRoutine" THEN <<Note("routine", result, result.status, 0)>>
    ELSE <<>>

\* The positions at which an invocation slot is free: the last invocation in
\* it returned ("idle"), returned from the catch of 169-182 ("aborted"), or
\* threw out of the handler ("rejected").
Free == {"idle", "aborted", "rejected"}

\* Variant of AfterReadError: the handler goes on after the catch.
AfterReadError_goesOn == "classify"

\* Where the catch of 169-182 leaves the invocation: it returns (181).
AfterReadError == "aborted"

\* Lines 137-182: the event arrives and the previous status is read; when
\* getPreviousStatus throws, the catch logs the error.  Invocations are
\* anonymous: a new one takes the lowest free slot.
HandlerReceive(p, result) ==
    /\ pc[p] \in Free
    /\ \A q \in Procs : q < p => pc[q] \notin Free
    /\ input' = [input EXCEPT ![p] = result]
    /\ IF getPreviousStatusThrows(result.url)
       THEN /\ previousResult' = [previousResult EXCEPT ![p] = None]
            /\ pc' = [pc EXCEPT ![p] = AfterReadError]
       ELSE /\ previousResult' = [previousResult EXCEPT ![p] = getPreviousStatus(result.url)]
            /\ pc' = [pc EXCEPT ![p] = "classify"]
    /\ nchecks' = nchecks + 1
    /\ UNCHANGED <<now, burst, windowSec, statusStore, metricsStore, historyStore,
                   buckets, notes, persisted, clearedAt, fault, call, checker, emitted>>

\* A check.result event as the checker emits it arrives.
HandlerStart(p, url, status, responseTime) ==
    HandlerReceive(p, StatusResult(url, status, responseTime, now))

\* Lines 163-288: the branch is chosen; a transition asks the rate limiter and
\* shows the alert or the rate-limited message.
HandlerClassify(p) ==
    LET result == input[p]
        previous == previousResult[p]
        branch == Classify(result, previous)
        c == consume(buckets, result.url, now)
        wait == getTimeUntilNextToken(c.buckets, result.url, now)
        left == getTokenCount(IF c.ret THEN c.buckets ELSE wait.buckets, result.url, now)
    IN /\ pc[p] = "classify"
       /\ IF branch = "initial"
          THEN /\ pc' = [pc EXCEPT ![p] = "storeInitial"]
               /\ UNCHANGED <<buckets, notes>>
          ELSE IF branch = "routine"
          THEN /\ pc' = [pc EXCEPT ![p] = "storeRoutine"]
               /\ UNCHANGED <<buckets, notes>>
          ELSE IF c.ret
          THEN /\ buckets' = left.buckets
               /\ notes' = notes \o NoteBeforeStore(result, previous)
               /\ pc' = [pc EXCEPT ![p] = "storeChange"]
          ELSE /\ buckets' = left.buckets
               /\ notes' = Append(notes, Note("suppressed", result, previous.status, wait.ret))
               /\ pc' = [pc EXCEPT ![p] = AfterDenied]
       /\ UNCHANGED <<now, burst, windowSec, statusStore, metricsStore, historyStore,
                      input, previousResult, persisted, clearedAt, nchecks, fault, call,
                      checker, emitted>>

\* Lines 196-204, 226-231, 289-294: updateLastStatus and the handler's end; when
\* updateLastStatus throws, the handler throws and shows nothing more.
HandlerStore(p) ==
    LET result == input[p]
        throws == updateLastStatusThrows(result)
    IN /\ pc[p] \in {"storeInitial", "storeRoutine", "storeChange"}
       /\ updateLastStatus(result)
       /\ notes' = IF throws THEN notes ELSE notes \o NoteAfterStore(pc[p], result)
       /\ pc' = [pc EXCEPT ![p] = IF throws THEN "rejected" ELSE "idle"]
       /\ persisted' = IF throws \/ fault # "none" THEN persisted
                       ELSE Append(persisted, result)
       /\ UNCHANGED <<now, burst, windowSec, buckets, input, previousResult, clearedAt,
                      nchecks, fault, call, checker, emitted>>

\* Time passes.
Tick(d) ==
    /\ now + d \in Times
    /\ now' = now + d
    /\ UNCHANGED <<burst, windowSec, statusStore, metricsStore, historyStore, buckets,
                   pc, input, previousResult, notes, persisted, clearedAt, nchecks,
                   fault, call, checker, emitted>>

\* clearAllStatuses() is called.
Clear ==
    /\ persisted # <<>>
    /\ clearAllStatuses
    /\ persisted' = IF fault = "write" THEN persisted ELSE <<>>
    /\ clearedAt' = Len(notes)
    /\ UNCHANGED <<now, burst, windowSec, buckets, pc, input, previousResult, notes,
                   nchecks, fault, call, checker, emitted>>

Init ==
    /\ now = 0
    /\ burst \in Bursts
    /\ windowSec \in WindowSecs
    /\ statusStore = [u \in Urls |-> None]
    /\ metricsStore = [u \in Urls |-> None]
    /\ historyStore = <<>>
    /\ buckets = [u \in Urls |-> None]
    /\ pc = [p \in Procs |-> "idle"]
    /\ input = [p \in Procs |-> None]
    /\ previousResult = [p \in Procs |-> None]
    /\ notes = <<>>
    /\ persisted = <<>>
    /\ clearedAt = 0
    /\ nchecks = 0
    /\ fault = "none"
    /\ call = NoCall
    /\ checker = NoCheck
    /\ emitted = <<>>

\* Checks of any site arrive at any time and their handlers may overlap.
Next ==
    \/ \E p \in Procs, u \in Urls, s \in Statuses, rt \in RespTimes :
          nchecks < MaxChecks /\ HandlerStart(p, u, s, rt)
    \/ \E p \in Procs : HandlerClassify(p)
    \/ \E p \in Procs : HandlerStore(p)
    \/ \E d \in TimeSteps : Tick(d)

Spec == Init /\ [][Next]_vars

\* Checks are handled one at a time: each handler ends before the next starts;
\* the stores may be cleared between two checks.
NextSeq ==
    \/ \E u \in Urls, s \in Statuses, rt \in RespTimes :
          nchecks < MaxChecks /\ HandlerStart(1, u, s, rt)
    \/ HandlerClassify(1)
    \/ HandlerStore(1)
    \/ \E d \in TimeSteps : Tick(d)
    \/ pc[1] = "idle" /\ Clear

SpecSeq == Init /\ [][NextSeq]_vars

\* One site, checked again and again, one check at a time.
NextFlap ==
    \/ \E s \in Statuses, rt \in RespTimes :
          nchecks < FlapChecks /\ HandlerStart(1, "A", s, rt)
    \/ HandlerClassify(1)
    \/ HandlerStore(1)
    \/ \E d \in TimeSteps : Tick(d)

SpecFlap == Init /\ [][NextFlap]_vars

\* The options createRateLimiter is called with.
BurstOptions == {Num(-1), Num(0), Num(1), Num(2), Num(3), NaN, Undefined, Str(3)}
WindowOptions == {Num(-1), Num(0), Num(1), Num(300), NaN, Undefined, Str(300)}

\* The module is being loaded: createRateLimiter has not been called yet.
InitBoot ==
    /\ now = 0
    /\ burst = 0
    /\ windowSec = 0
    /\ statusStore = [u \in Urls |-> None]
    /\ metricsStore = [u \in Urls |-> None]
    /\ historyStore = <<>>
    /\ buckets = [u \in Urls |-> None]
    /\ pc = [p \in Procs |-> "idle"]
    /\ input = [p \in Procs |-> None]
    /\ previousResult = [p \in Procs |-> None]
    /\ notes = <<>>
    /\ persisted = <<>>
    /\ clearedAt = 0
    /\ nchecks = 0
    /\ fault = "none"
    /\ call = NoCall
    /\ checker = NoCheck
    /\ emitted = <<>>

\* A limiter exists: createRateLimiter returned one.
Created == burst > 0

\* createRateLimiter({burst: b, windowSec: w}) is called, once, at load.
CreateRateLimiter(b, w) ==
    /\ call = NoCall
    /\ checker = NoCheck
    /\ emitted = <<>>
    /\ ~Created
    /\ IF createRateLimiterThrows(b, w)
       THEN /\ call' = [op |-> "createRateLimiter", arg |-> "", ret |-> "throws",
                        burst |-> b, windowSec |-> w]
            /\ UNCHANGED <<burst, windowSec>>
       ELSE /\ call' = [op |-> "createRateLimiter", arg |-> "", ret |-> "limiter",
                        burst |-> b, windowSec |-> w]
            /\ burst' = b.v
            /\ windowSec' = w.v
    /\ UNCHANGED <<now, statusStore, metricsStore, historyStore, buckets, pc, input,
                   previousResult, notes, persisted, clearedAt, nchecks, fault,
                   checker, emitted>>

\* A method of the limiter is called; r is the Map after it and its result.
LimiterCall(op, siteUrl, r) ==
    /\ Created
    /\ buckets' = r.buckets
    /\ call' = [op |-> op, arg |-> siteUrl, ret |-> r.ret]
    /\ UNCHANGED <<now, burst, windowSec, statusStore, metricsStore, historyStore, pc,
                   input, previousResult, notes, persisted, clearedAt, nchecks, fault,
                   checker, emitted>>

Consume(siteUrl) == LimiterCall("consume", siteUrl, consume(buckets, siteUrl, now))

IsAllowed(siteUrl) == LimiterCall("isAllowed", siteUrl, isAllowed(buckets, siteUrl, now))

GetTokenCount(siteUrl) ==
    LimiterCall("getTokenCount", siteUrl, getTokenCount(buckets, siteUrl, now))

GetTimeUntilNextToken(siteUrl) ==
    LimiterCall("getTimeUntilNextToken", siteUrl,
                getTimeUntilNextToken(buckets, siteUrl, now))

Reset == LimiterCall("reset", "", [buckets |-> reset(buckets), ret |-> 0])

\* The limiter is constructed and then called in any order at any time.
NextLimiter ==
    \/ \E b \in BurstOptions, w \in WindowOptions : CreateRateLimiter(b, w)
    \/ \E u \in Urls : Consume(u)
    \/ \E u \in Urls : IsAllowed(u)
    \/ \E u \in Urls : GetTokenCount(u)
    \/ \E u \in Urls : GetTimeUntilNextToken(u)
    \/ Reset
    \/ \E d \in TimeSteps : Created /\ Tick(d)

SpecLimiter == InitBoot /\ [][NextLimiter]_vars

\* The check.result events of one site, well-formed or not: the url may be
\* missing, the status unknown, the responseTime negative, checkedAt missing.
SubmittedResults ==
    {StatusResult(u, s, rt, at) :
        u \in {"A", ""}, s \in Statuses \cup {"UNKNOWN"},
        rt \in RespTimes \cup {-1}, at \in {now, Never}}

\* Events of any shape arrive, one at a time.
NextInvalid ==
    \/ \E r \in SubmittedResults : nchecks < MaxChecks /\ HandlerReceive(1, r)
    \/ HandlerClassify(1)
    \/ HandlerStore(1)
    \/ \E d \in TimeSteps : Tick(d)

SpecInvalid == Init /\ [][NextInvalid]_vars

\* The same events, with the event loop running every continuation that is
\* ready: the awaited imports (162, 195, 225, 288) resolve, so a handler that
\* has started goes on to its next step.
SpecInvalidFair ==
    /\ Init
    /\ [][NextInvalid]_vars
    /\ WF_vars(HandlerClassify(1))
    /\ WF_vars(HandlerStore(1))

\* The file system starts or stops refusing reads or writes in DATA_DIR.
Fault(f) ==
    /\ fault # f
    /\ fault' = f
    /\ UNCHANGED <<now, burst, windowSec, statusStore, metricsStore, historyStore,
                   buckets, pc, input, previousResult, notes, persisted, clearedAt,
                   nchecks, call, checker, emitted>>

\* Checks arrive one at a time, some without a url, while the storage fails
\* and recovers at any moment.
NextFault ==
    \/ \E u \in Urls \cup {""}, s \in Statuses, rt \in RespTimes :
          nchecks < MaxChecks /\ HandlerStart(1, u, s, rt)
    \/ HandlerClassify(1)
    \/ HandlerStore(1)
    \/ \E f \in Faults : Fault(f)

SpecFault == Init /\ [][NextFault]_vars

\* updateLastStatus(result) is called directly, as the handler calls it.
UpdateLastStatus(result) ==
    /\ updateLastStatus(result)
    /\ persisted' = IF updateLastStatusThrows(result) \/ fault # "none" THEN persisted
                    ELSE Append(persisted, result)
    /\ UNCHANGED <<now, burst, windowSec, buckets, pc, input, previousResult, notes,
                   clearedAt, nchecks, fault, call, checker, emitted>>

\* How many results of a url are recorded between two clears: a long run for
\* the first site, one result for any other.
MetricCap(u) == IF u = "A" THEN MetricChecks ELSE 1

\* Results are recorded one after another, UP and DOWN in any order, and the
\* stores may be cleared at any time.
NextMetrics ==
    \/ \E u \in Urls, s \in Statuses, rt \in RespTimes :
          /\ Len(Filter(persisted, u)) < MetricCap(u)
          /\ UpdateLastStatus(StatusResult(u, s, rt, now))
    \/ Clear

SpecMetrics == Init /\ [][NextMetrics]_vars

\* getSystemMetrics() is called, as the health endpoint does.
GetSystemMetrics ==
    /\ call' = [op |-> "getSystemMetrics", arg |-> "", ret |-> getSystemMetrics]
    /\ UNCHANGED <<now, burst, windowSec, statusStore, metricsStore, historyStore,
                   buckets, pc, input, previousResult, notes, persisted, clearedAt,
                   nchecks, fault, checker, emitted>>

\* updateLastStatus(result) is called and noted as the last call made.
RecordResult(result) ==
    /\ updateLastStatus(result)
    /\ persisted' = IF updateLastStatusThrows(result) \/ fault # "none" THEN persisted
                    ELSE Append(persisted, result)
    /\ call' = [op |-> "updateLastStatus", arg |-> result.url, ret |-> 0]
    /\ UNCHANGED <<now, burst, windowSec, buckets, pc, input, previousResult, notes,
                   clearedAt, nchecks, fault, checker, emitted>>

\* Results of both sites with different response times are recorded, time
\* passes once in between, and the system metrics are read at any point.
NextSystem ==
    \/ \E u \in Urls, s \in Statuses, rt \in SystemRespTimes :
          /\ Len(persisted) < SystemChecks
          /\ RecordResult(StatusResult(u, s, rt, now))
    \/ \E d \in TimeSteps : now = 0 /\ Tick(d)
    \/ GetSystemMetrics

SpecSystem == Init /\ [][NextSystem]_vars

(***************************************************************************)
(* HealthCheck, src/steps/health.step.ts, handler (49-128).  The handler   *)
(* has no await: it reads the stores and answers in one step.              *)
(***************************************************************************)
\* The sites of the SITES variable.
HealthSites == {"A", "B", "C"}

\* getAllMetrics(): the metrics map as loaded.
getAllMetrics == loadMetricsStore

\* Variant of healthStatusOf: 'down' only when more than half of the sites are down.
healthStatusOf_moreThanHalf(downSites, totalSites) ==
    IF downSites > 0
    THEN IF 2 * downSites > totalSites THEN "down" ELSE "degraded"
    ELSE "ok"

\* Lines 72-75; downSites >= totalSites * 0.5 is exact for counts.
healthStatusOf(downSites, totalSites) ==
    IF downSites > 0
    THEN IF 2 * downSites >= totalSites THEN "down" ELSE "degraded"
    ELSE "ok"

\* Lines 78-80: the sites whose metrics have consecutive failures.
activeAlertsOf(allMetrics) ==
    Cardinality({u \in Keys(allMetrics) : allMetrics[u].consecutiveFailures > 0})

\* Lines 54-106: the response of GET /healthz.  The catch of 107-127 is not
\* reached: the functions called catch their own read errors.
healthResponse(lastKnown, systemMetrics, allMetrics) ==
    [status |-> 200,
     body |-> [status |-> healthStatusOf(
                   Cardinality({u \in Keys(lastKnown) : lastKnown[u].status = "DOWN"}),
                   Cardinality(Keys(lastKnown))),
               sitesConfigured |-> Cardinality(HealthSites),
               lastKnown |-> lastKnown,
               now |-> now,
               metrics |-> [totalUptime |-> systemMetrics.overallUptimePercentage,
                            averageResponseTime |-> systemMetrics.averageResponseTime,
                            activeAlerts |-> activeAlertsOf(allMetrics)],
               version |-> "1.0.0"]]

healthHandler == healthResponse(getSnapshot, getSystemMetrics, getAllMetrics)

\* The stores are empty and know three sites.
InitHealth ==
    /\ now = 0
    /\ burst = 1
    /\ windowSec = 1
    /\ statusStore = [u \in HealthSites |-> None]
    /\ metricsStore = [u \in HealthSites |-> None]
    /\ historyStore = <<>>
    /\ buckets = [u \in Urls |-> None]
    /\ pc = [p \in Procs |-> "idle"]
    /\ input = [p \in Procs |-> None]
    /\ previousResult = [p \in Procs |-> None]
    /\ notes = <<>>
    /\ persisted = <<>>
    /\ clearedAt = 0
    /\ nchecks = 0
    /\ fault = "none"
    /\ call = NoCall
    /\ checker = NoCheck
    /\ emitted = <<>>

\* GET /healthz is served.
HealthCheck ==
    /\ call' = [op |-> "GET /healthz", arg |-> "", ret |-> healthHandler]
    /\ UNCHANGED <<now, burst, windowSec, statusStore, metricsStore, historyStore,
                   buckets, pc, input, previousResult, notes, persisted, clearedAt,
                   nchecks, fault, checker, emitted>>

\* The stores are cleared, noted as the last call made.
ClearAll ==
    /\ persisted # <<>>
    /\ clearAllStatuses
    /\ persisted' = <<>>
    /\ clearedAt' = Len(notes)
    /\ call' = [op |-> "clearAllStatuses", arg |-> "", ret |-> 0]
    /\ UNCHANGED <<now, burst, windowSec, buckets, pc, input, previousResult, notes,
                   nchecks, fault, checker, emitted>>

\* Results of three sites are recorded, the stores are cleared, and the health
\* endpoint is asked at any point.
NextHealth ==
    \/ \E u \in HealthSites, s \in Statuses, rt \in RespTimes :
          /\ Len(persisted) < HealthChecks
          /\ RecordResult(StatusResult(u, s, rt, now))
    \/ ClearAll
    \/ HealthCheck

SpecHealth == InitHealth /\ [][NextHealth]_vars

\* Results of one site with response times of different sizes are recorded one
\* after another.
NextMean ==
    \E s \in {"UP"}, rt \in MeanRespTimes :
        /\ Len(persisted) < MeanChecks
        /\ UpdateLastStatus(StatusResult("A", s, rt, now))

SpecMean == Init /\ [][NextMean]_vars

\* Results of one site, UP and DOWN, with response times from 0 ms on, are
\* recorded one after another.
NextBounds ==
    \E s \in Statuses, rt \in BoundsRespTimes :
        /\ Len(persisted) < BoundsChecks
        /\ UpdateLastStatus(StatusResult("A", s, rt, now))

SpecBounds == Init /\ [][NextBounds]_vars

\* Two sites are given the same consume calls at the same instants; the first
\* is also asked read-only questions in between, the second never.
RefillTimes == {0, 973, 1000, 2000}

InitRefill ==
    /\ now = 0
    /\ burst \in Bursts
    /\ windowSec = 2
    /\ statusStore = [u \in Urls |-> None]
    /\ metricsStore = [u \in Urls |-> None]
    /\ historyStore = <<>>
    /\ buckets = [u \in Urls |-> None]
    /\ pc = [p \in Procs |-> "idle"]
    /\ input = [p \in Procs |-> None]
    /\ previousResult = [p \in Procs |-> None]
    /\ notes = <<>>
    /\ persisted = <<>>
    /\ clearedAt = 0
    /\ nchecks = 0
    /\ fault = "none"
    /\ call = NoCall
    /\ checker = NoCheck
    /\ emitted = <<>>

\* consume is called for both sites at this instant; a and b are what the two
\* calls give.
ConsumedBoth(a, b) ==
    /\ buckets' = [buckets EXCEPT !["A"] = a.buckets["A"], !["B"] = b.buckets["B"]]
    /\ call' = [op |-> "consume", arg |-> "A", ret |-> <<a.ret, b.ret>>]
    /\ UNCHANGED <<now, burst, windowSec, statusStore, metricsStore, historyStore, pc,
                   input, previousResult, notes, persisted, clearedAt, nchecks, fault,
                   checker, emitted>>

ConsumeBoth == ConsumedBoth(consumeNum(buckets, "A", now), consumeNum(buckets, "B", now))

\* A read-only operation is called for the first site, after its first consume.
ReadOnlyCall(op, r) ==
    /\ buckets["A"] # None
    /\ buckets' = r.buckets
    /\ call' = [op |-> op, arg |-> "A", ret |-> r.ret]
    /\ UNCHANGED <<now, burst, windowSec, statusStore, metricsStore, historyStore, pc,
                   input, previousResult, notes, persisted, clearedAt, nchecks, fault,
                   checker, emitted>>

\* Date.now() advances.
Advance(t) ==
    /\ t > now
    /\ now' = t
    /\ UNCHANGED <<burst, windowSec, statusStore, metricsStore, historyStore, buckets,
                   pc, input, previousResult, notes, persisted, clearedAt, nchecks,
                   fault, call, checker, emitted>>

NextRefill ==
    \/ ConsumeBoth
    \/ ReadOnlyCall("isAllowed", isAllowedNum(buckets, "A", now))
    \/ ReadOnlyCall("getTokenCount", getTokenCountNum(buckets, "A", now))
    \/ ReadOnlyCall("getTimeUntilNextToken", getTimeUntilNextTokenNum(buckets, "A", now))
    \/ \E t \in RefillTimes : Advance(t)

SpecRefill == InitRefill /\ [][NextRefill]_vars

\* One site's limiter is asked how long to wait, and time advances to the
\* instants it names.
WaitTimes == {391, 3000, 3500}

\* Before the first call: nothing is promised.
NoPromise == [op |-> "none", arg |-> "", ret |-> 0, at |-> 0, due |-> Never]

InitWait ==
    /\ now = 0
    /\ burst \in Bursts
    /\ windowSec = 3
    /\ statusStore = [u \in Urls |-> None]
    /\ metricsStore = [u \in Urls |-> None]
    /\ historyStore = <<>>
    /\ buckets = [u \in Urls |-> None]
    /\ pc = [p \in Procs |-> "idle"]
    /\ input = [p \in Procs |-> None]
    /\ previousResult = [p \in Procs |-> None]
    /\ notes = <<>>
    /\ persisted = <<>>
    /\ clearedAt = 0
    /\ nchecks = 0
    /\ fault = "none"
    /\ call = NoPromise
    /\ checker = NoCheck
    /\ emitted = <<>>

\* The instant from which a token is promised: the earliest of the instants
\* now + t of the calls getTimeUntilNextToken() = t > 0 since the last consume.
dueAfter(due, t) ==
    IF t = 0 THEN due
    ELSE IF due = Never THEN now + t
    ELSE Min(due, now + t)

\* A method of the limiter is called for site A; r is the Map after the call
\* and what it returns, due the promise that holds afterwards.
WaitCall(op, r, due) ==
    /\ buckets' = r.buckets
    /\ call' = [op |-> op, arg |-> "A", ret |-> r.ret, at |-> now, due |-> due]
    /\ UNCHANGED <<now, burst, windowSec, statusStore, metricsStore, historyStore, pc,
                   input, previousResult, notes, persisted, clearedAt, nchecks, fault,
                   checker, emitted>>

WaitConsume == WaitCall("consume", consumeNum(buckets, "A", now), Never)

WaitIsAllowed == WaitCall("isAllowed", isAllowedNum(buckets, "A", now), call.due)

AskedWait(r) == WaitCall("getTimeUntilNextToken", r, dueAfter(call.due, r.ret))

WaitAsk == AskedWait(getTimeUntilNextTokenNum(buckets, "A", now))

\* Date.now() advances to one of the instants, or to the promised one.
WaitAdvance ==
    \E t \in WaitTimes \cup {call.due} :
        /\ t <= MathMax(WaitTimes)
        /\ Advance(t)

NextWait ==
    \/ WaitConsume
    \/ WaitIsAllowed
    \/ WaitAsk
    \/ WaitAdvance

SpecWait == InitWait /\ [][NextWait]_vars

(***************************************************************************)
(* The website checker (part_000 144-376): one request after the other.   *)
(* Its invocations share nothing but the events they emit.                 *)
(***************************************************************************)
CheckUrls == {"https://a.test", "ftp://a.test", "a.test"}
ResponseCodes == {200, 399, 400, 500}
ProbeTimes == {120}

\* Line 188: the AbortController aborts the request after 10 seconds.
FetchTimeoutMs == 10000

\* new URL(url) throws a TypeError for a string that is no absolute URL.
InvalidUrl == [name |-> "TypeError", message |-> "Invalid URL", code |-> "ERR_INVALID_URL"]

\* Line 183.
UnsupportedProtocol ==
    [name |-> "Error", message |-> "Only HTTP and HTTPS protocols are supported",
     code |-> Null]

\* What fetch rejects with: the abort of line 188, a failed connection as
\* fetch reports it, and a socket error with a code.
AbortError == [name |-> "AbortError", message |-> "This operation was aborted", code |-> Null]

FetchErrors ==
    {AbortError,
     [name |-> "TypeError", message |-> "fetch failed", code |-> Null],
     [name |-> "Error", message |-> "connect ECONNREFUSED", code |-> "ECONNREFUSED"],
     [name |-> "Error", message |-> "write EPIPE", code |-> "EPIPE"]}

\* fetch resolved with a response of this status code.
Response(code) == [kind |-> "response", status |-> code, error |-> NoError]

\* The try block threw this error.
Thrown(error) == [kind |-> "error", status |-> NullCode, error |-> error]

ProbeOutcomes == {Response(code) : code \in ResponseCodes} \cup {Thrown(e) : e \in FetchErrors}

\* urlObj.protocol of new URL(url); "" when new URL throws.
protocol(url) ==
    IF url = "https://a.test" THEN "https:"
    ELSE IF url = "ftp://a.test" THEN "ftp:"
    ELSE ""

\* Lines 181-184: what the validation throws, NoError when it passes.
urlError(url) ==
    IF protocol(url) = "" THEN InvalidUrl
    ELSE IF protocol(url) \notin {"http:", "https:"} THEN UnsupportedProtocol
    ELSE NoError

\* error.message.includes("fetch")
includesFetch(message) == message \in {"fetch failed"}

\* Lines 242-261: the switch on nodeError.code.
messageOfCode(error) ==
    IF error.code = "ENOTFOUND" THEN "DNS resolution failed"
    ELSE IF error.code = "ECONNREFUSED" THEN "Connection refused"
    ELSE IF error.code = "ECONNRESET" THEN "Connection reset by peer"
    ELSE IF error.code = "ETIMEDOUT" THEN "Connection timeout"
    ELSE IF error.code = "CERT_HAS_EXPIRED" THEN "SSL certificate expired"
    ELSE IF error.code = "UNABLE_TO_VERIFY_LEAF_SIGNATURE"
    THEN "SSL certificate verification failed"
    ELSE error.message

\* Lines 229-263.
errorMessageOf(error) ==
    IF error.name = "AbortError" THEN "Request timeout (10s)"
    ELSE IF error.name = "TypeError" /\ includesFetch(error.message)
    THEN "Network error - unable to connect"
    ELSE IF error.code # Null THEN messageOfCode(error)
    ELSE error.message

\* Lines 207-208: 2xx and 3xx are UP, everything else is DOWN.
statusOf_through400(code) == IF code >= 200 /\ code <= 400 THEN "UP" ELSE "DOWN"

statusOf(code) == IF code >= 200 /\ code < 400 THEN "UP" ELSE "DOWN"

\* Lines 210-217: the result of a response; the clock values are whole
\* milliseconds, which Math.round leaves as they are.
responseResult(url, code, responseTime, checkedAt) ==
    [url |-> url, status |-> statusOf(code), code |-> code,
     responseTime |-> responseTime, checkedAt |-> checkedAt, error |-> Null]

\* Lines 265-272: the result of the catch block.
errorResult(url, error, responseTime, checkedAt) ==
    [url |-> url, status |-> "DOWN", code |-> NullCode,
     responseTime |-> responseTime, checkedAt |-> checkedAt,
     error |-> errorMessageOf(error)]

\* Lines 179-281: the result of what the try block did.
resultOf(url, outcome, responseTime, checkedAt) ==
    IF outcome.kind = "response"
    THEN responseResult(url, outcome.status, responseTime, checkedAt)
    ELSE errorResult(url, outcome.error, responseTime, checkedAt)

\* Lines 154-200: a check.requested event arrives; the url is validated and
\* the request is sent, or the validation throws and the catch block builds
\* the result at once.
CheckerReceive(url) ==
    /\ checker.pc = "idle"
    /\ checker.handled < CheckRequests
    /\ checker' =
          IF urlError(url) # NoError
          THEN [pc |-> "emitCheckResult", url |-> url, startTime |-> now,
                outcome |-> Thrown(urlError(url)),
                result |-> resultOf(url, Thrown(urlError(url)), 0, now),
                handled |-> checker.handled + 1]
          ELSE [pc |-> "fetch", url |-> url, startTime |-> now,
                outcome |-> NoOutcome, result |-> None,
                handled |-> checker.handled + 1]
    /\ UNCHANGED <<now, burst, windowSec, statusStore, metricsStore, historyStore,
                   buckets, pc, input, previousResult, notes, persisted, clearedAt,
                   nchecks, fault, call, emitted>>

\* Lines 190-294: fetch settles after `elapsed` ms, with a response or an
\* error; the abort fires when 10 seconds have passed, and only then.
CheckerFetch(outcome, elapsed) ==
    /\ checker.pc = "fetch"
    /\ (outcome = Thrown(AbortError)) <=> (elapsed >= FetchTimeoutMs)
    /\ now' = now + elapsed
    /\ checker' = [checker EXCEPT
          !.pc = "emitCheckResult",
          !.outcome = outcome,
          !.result = resultOf(checker.url, outcome, now' - checker.startTime, now')]
    /\ UNCHANGED <<burst, windowSec, statusStore, metricsStore, historyStore,
                   buckets, pc, input, previousResult, notes, persisted, clearedAt,
                   nchecks, fault, call, emitted>>

\* emit is called with the result; a rejection is logged by the catch around
\* the call (324-335, 346-359) and the handler goes on.
CheckerEmit(topic, delivered, next) ==
    /\ emitted' = Append(emitted, [topic |-> topic, data |-> checker.result,
                                   delivered |-> delivered])
    /\ checker' = [checker EXCEPT !.pc = next]
    /\ UNCHANGED <<now, burst, windowSec, statusStore, metricsStore, historyStore,
                   buckets, pc, input, previousResult, notes, persisted, clearedAt,
                   nchecks, fault, call>>

\* Lines 313-335.
CheckerEmitCheckResult(delivered) ==
    /\ checker.pc = "emitCheckResult"
    /\ CheckerEmit("check.result", delivered, "emitStatusStream")

\* Lines 338-375: the second emit and the handler's end.
CheckerEmitStatusStream(delivered) ==
    /\ checker.pc = "emitStatusStream"
    /\ CheckerEmit("status.stream", delivered, "idle")

CheckerSettles ==
    \E outcome \in ProbeOutcomes, elapsed \in ProbeTimes \cup {FetchTimeoutMs} :
        CheckerFetch(outcome, elapsed)

NextChecker ==
    \/ \E url \in CheckUrls : CheckerReceive(url)
    \/ CheckerSettles
    \/ \E delivered \in BOOLEAN : CheckerEmitCheckResult(delivered)
    \/ \E delivered \in BOOLEAN : CheckerEmitStatusStream(delivered)

\* fetch settles, by the abort after 10 seconds at the latest, and so does
\* each emit.
SpecChecker ==
    /\ Init
    /\ [][NextChecker]_vars
    /\ WF_vars(CheckerSettles)
    /\ WF_vars(\E delivered \in BOOLEAN : CheckerEmitCheckResult(delivered))
    /\ WF_vars(\E delivered \in BOOLEAN : CheckerEmitStatusStream(delivered))

(***************************************************************************)
(* An outage: site A is checked again and again at the first instant, with *)
(* any status; from then on the scheduler's checks keep arriving, one per  *)
(* instant, and all observe the status the last of those checks observed.  *)
(***************************************************************************)
\* A check arrives while the site may still change its status.
FlapCheck(status, responseTime) ==
    /\ now = 0
    /\ nchecks < OutageChecks
    /\ HandlerStart(1, "A", status, responseTime)

\* The next scheduled check arrives: the site is as the last check saw it.
SteadyCheck ==
    /\ now > 0
    /\ input[1] # None
    /\ input[1].checkedAt < now
    /\ HandlerStart(1, "A", input[1].status, input[1].responseTime)

TimePasses == \E d \in TimeSteps : Tick(d)

\* What a step HandlerStore(1) does to the invocation's position: the awaited
\* import has resolved, updateLastStatus has returned or thrown, and the
\* handler is at one of its ends.
HandlerReturns ==
    /\ pc[1] \in {"storeInitial", "storeRoutine", "storeChange"}
    /\ \E end \in Free : pc' = [pc EXCEPT ![1] = end]

NextOutage ==
    \/ \E s \in Statuses, rt \in RespTimes : FlapCheck(s, rt)
    \/ SteadyCheck
    \/ HandlerClassify(1)
    \/ HandlerStore(1)
    \/ TimePasses

\* Checks keep arriving, time keeps advancing and the handler's awaits settle.
SpecOutage ==
    /\ Init
    /\ [][NextOutage]_vars
    /\ WF_vars(SteadyCheck)
    /\ WF_vars(TimePasses)
    /\ WF_vars(HandlerClassify(1))
    /\ WF_pc(HandlerReturns)

(***************************************************************************)
(* Vocabulary of the properties.                                           *)
(***************************************************************************)

\* The tokens (times WindowMs) the url's bucket holds at `now`, once refilled;
\* a bucket not yet created is created full.
TokensNow(u) ==
    IF buckets[u] = None THEN burst * WindowMs
    ELSE Min(burst * WindowMs,
             buckets[u].tokens + (now - buckets[u].lastRefill) * burst)

\* Invocation p takes its second step (the branch is chosen) in this step.
Classifies(p) == pc[p] = "classify" /\ pc'[p] # "classify"

\* Invocation p takes its last step from position `at` in this step.
Stores(p, at) == pc[p] = at /\ pc'[p] # at

\* The check read a stored record whose status differs from its own.
IsTransition(p) ==
    previousResult[p] # None /\ input[p].status # previousResult[p].status

\* The check read a stored record with its own status.
IsUnchanged(p) ==
    previousResult[p] # None /\ input[p].status = previousResult[p].status

TotalChecks(metrics, u) == IF metrics[u] = None THEN 0 ELSE metrics[u].totalChecks

\* This step persists `result`: StatusRecord overwritten, HistoryLog appended,
\* SiteMetrics updated.
PersistsNow(result) ==
    /\ statusStore'[result.url] = result
    /\ historyStore' # <<>>
    /\ historyStore'[Len(historyStore')] = result
    /\ TotalChecks(metricsStore', result.url) = TotalChecks(metricsStore, result.url) + 1
    /\ persisted' = Append(persisted, result)

\* This step shows exactly one notification, of this kind, about this check.
ShowsOnly(kind, result, previousStatus) ==
    /\ Len(notes') = Len(notes) + 1
    /\ SubSeq(notes', 1, Len(notes)) = notes
    /\ notes'[Len(notes')].kind = kind
    /\ notes'[Len(notes')].result = result
    /\ notes'[Len(notes')].previousStatus = previousStatus

AllIdle == \A p \in Procs : pc[p] = "idle"

LastNote == notes[Len(notes)]

\* C1: a transition that the rate limiter denies is not persisted: the status,
\* metrics and history stores are left as they were, the invocation ends there,
\* and all it shows is the rate-limited message.
C1_DeniedTransitionNotPersisted ==
    [][\A p \in Procs :
          (Classifies(p) /\ IsTransition(p) /\ TokensNow(input[p].url) < WindowMs)
          => /\ UNCHANGED <<statusStore, metricsStore, historyStore, persisted>>
             /\ ShowsOnly("suppressed", input[p], previousResult[p].status)
             /\ pc'[p] = "idle"]_vars

\* C1 witness: a suppressed check has ended and the stored record still has the
\* previous status; the check is nowhere in the stores.
C1_Witness ==
    /\ AllIdle
    /\ notes # <<>>
    /\ LastNote.kind = "suppressed"
    /\ statusStore[LastNote.result.url] # None
    /\ statusStore[LastNote.result.url].status = LastNote.previousStatus
    /\ LastNote.result.status # LastNote.previousStatus
    /\ \A i \in 1..Len(historyStore) : historyStore[i] # LastNote.result

\* C2: a transition that the rate limiter grants first shows the status-change
\* alert, naming the previous and the new status, with nothing persisted yet;
\* the invocation's next step persists the check and shows nothing more, so
\* that getPreviousStatus then returns the new status.
C2_GrantedTransitionAlertThenPersist ==
    [][\A p \in Procs :
          /\ (Classifies(p) /\ IsTransition(p) /\ TokensNow(input[p].url) >= WindowMs)
             => /\ ShowsOnly("change", input[p], previousResult[p].status)
                /\ UNCHANGED <<statusStore, metricsStore, historyStore, persisted>>
                /\ pc'[p] = "storeChange"
          /\ Stores(p, "storeChange")
             => /\ PersistsNow(input[p])
                /\ notes' = notes
                /\ pc'[p] = "idle"
                /\ getPreviousStatus(input[p].url)'.status = input[p].status]_vars

\* C2 witness: a status-change alert was shown and its check is now the stored
\* record, with the new status.
C2_Witness ==
    /\ AllIdle
    /\ notes # <<>>
    /\ LastNote.kind = "change"
    /\ LastNote.previousStatus # LastNote.result.status
    /\ statusStore[LastNote.result.url] = LastNote.result
    /\ historyStore # <<>>
    /\ historyStore[Len(historyStore)] = LastNote.result

\* C3: a check that found no stored record never touches the rate limiter,
\* is persisted, and shows the initial-observation message, UP or DOWN.
C3_FirstObservationPersistsUnlimited ==
    [][\A p \in Procs :
          /\ (Classifies(p) /\ previousResult[p] = None)
             => /\ UNCHANGED <<buckets, notes, statusStore, metricsStore, historyStore>>
                /\ pc'[p] = "storeInitial"
          /\ Stores(p, "storeInitial")
             => /\ previousResult[p] = None
                /\ PersistsNow(input[p])
                /\ ShowsOnly("initial", input[p], "none")
                /\ UNCHANGED buckets
                /\ pc'[p] = "idle"]_vars

\* C3 witness: a first observation with status DOWN was persisted and announced,
\* and the site has no bucket.
C3_Witness ==
    /\ AllIdle
    /\ notes # <<>>
    /\ LastNote.kind = "initial"
    /\ LastNote.result.status = "DOWN"
    /\ statusStore[LastNote.result.url] = LastNote.result
    /\ buckets[LastNote.result.url] = None

\* C4: a check with the stored status is persisted, shows only the routine
\* message and leaves the rate limiter alone; no status-change alert comes out
\* of it.
C4_UnchangedStatusRoutineOnly ==
    [][\A p \in Procs :
          /\ (Classifies(p) /\ IsUnchanged(p))
             => /\ UNCHANGED <<buckets, notes, statusStore, metricsStore, historyStore>>
                /\ pc'[p] = "storeRoutine"
          /\ Stores(p, "storeRoutine")
             => /\ IsUnchanged(p)
                /\ PersistsNow(input[p])
                /\ ShowsOnly("routine", input[p], input[p].status)
                /\ UNCHANGED buckets
                /\ pc'[p] = "idle"]_vars

\* C4 witness: a later check with the stored status replaced the record and
\* showed the routine message, after time had passed.
C4_Witness ==
    /\ AllIdle
    /\ Len(notes) >= 2
    /\ LastNote.kind = "routine"
    /\ statusStore[LastNote.result.url] = LastNote.result
    /\ \E i \in 1..(Len(notes) - 1) :
          /\ notes[i].result.url = LastNote.result.url
          /\ notes[i].result.status = LastNote.result.status
          /\ notes[i].result.checkedAt < LastNote.result.checkedAt

\* The notifications about checks of url u shown since the last clear.
NotesFor(u) == {i \in (clearedAt + 1)..Len(notes) : notes[i].result.url = u}

\* Those of them that are not rate-limited messages.
AcceptedFor(u) == {i \in NotesFor(u) : notes[i].kind # "suppressed"}

Greatest(S) == CHOOSE i \in S : \A j \in S : j <= i

\* C5 as stated: with the checks handled one after another, whenever no check
\* is in progress the snapshot's record of a url is the last result submitted
\* for it.
C5_SnapshotIsLastSubmitted ==
    pc[1] = "idle" =>
        \A u \in Urls :
            NotesFor(u) # {} => getSnapshot[u] = notes[Greatest(NotesFor(u))].result

\* C5 amended: with the checks handled one after another, whenever no check is
\* in progress the snapshot's record of a url is the last result submitted for
\* it that was not rate-limit suppressed, and there is none before the first.
C5_SnapshotIsLastUnsuppressed ==
    pc[1] = "idle" =>
        \A u \in Urls :
            IF AcceptedFor(u) = {} THEN getSnapshot[u] = None
            ELSE getSnapshot[u] = notes[Greatest(AcceptedFor(u))].result

\* C5 witness: the last check of a url was suppressed and the snapshot still
\* holds the result submitted before it.
C5_Witness ==
    /\ pc[1] = "idle"
    /\ \E u \in Urls :
          /\ AcceptedFor(u) # {}
          /\ Greatest(NotesFor(u)) > Greatest(AcceptedFor(u))
          /\ getSnapshot[u] = notes[Greatest(AcceptedFor(u))].result
          /\ getSnapshot[u] # notes[Greatest(NotesFor(u))].result

\* The indices of the status-change alerts.
Changes == {i \in 1..Len(notes) : notes[i].kind = "change"}

\* C6 as stated: with burst = 2, the results UP, DOWN, UP, DOWN, UP, DOWN for
\* one fresh site, all within less than the window, give exactly two
\* status-change alerts; the later transitions are suppressed and leave the
\* stored status as it was.
C6_FlappingGivesBurstAlerts ==
    ( /\ burst = 2
      /\ pc[1] = "idle"
      /\ Len(notes) = 6
      /\ \A i \in 1..6 :
            notes[i].result.status = (IF i % 2 = 1 THEN "UP" ELSE "DOWN")
      /\ notes[6].at - notes[1].result.checkedAt < WindowMs )
    => /\ Cardinality(Changes) = 2
       /\ [i \in 1..6 |-> notes[i].kind]
             = <<"initial", "change", "change", "suppressed", "routine", "suppressed">>
       /\ statusStore["A"].status = "UP"

\* C7 as stated: for each site, any time interval shorter than the window
\* holds at most burst status-change alerts.
C7_AtMostBurstAlertsPerWindow ==
    \A i \in Changes :
        Cardinality({j \in Changes :
                        /\ j >= i
                        /\ notes[j].result.url = notes[i].result.url
                        /\ notes[j].at - notes[i].at < WindowMs}) <= burst

\* C8: the history log never holds more than HistoryCap entries.
C8_HistoryWithinCap == Len(historyStore) <= HistoryCap

\* C8 witness: more results were persisted than the cap, and the log is full.
C8_Witness == Len(persisted) > HistoryCap /\ Len(historyStore) = HistoryCap

\* The last n entries of a sequence.
LastN(seq, n) == SubSeq(seq, Len(seq) - Min(n, Len(seq)) + 1, Len(seq))

\* C9: the history log is the last min(n, HistoryCap) results persisted since
\* the last clear, in insertion order; so a site whose results all lie before
\* the last HistoryCap persisted ones has an empty history.
C9_HistoryIsLatestPersisted ==
    /\ historyStore = LastN(persisted, HistoryCap)
    /\ \A u \in Urls :
          (\A i \in 1..Len(persisted) :
               persisted[i].url = u => i <= Len(persisted) - HistoryCap)
          => \A limit \in 1..MaxLimit : getSiteHistory(u, limit) = <<>>

\* C9 witness: a site has persisted results, all of them evicted by the later
\* results of another site.
C9_Witness ==
    \E u \in Urls :
        /\ \E i \in 1..Len(persisted) : persisted[i].url = u
        /\ Len(historyStore) = HistoryCap
        /\ getSiteHistory(u, MaxLimit) = <<>>

\* C10 as stated: getSiteHistory(url, limit), for every limit >= 0, returns
\* only entries of url, at most limit of them, the most recent ones of the
\* log, most recent first.
C10_SiteHistoryAtMostLimit ==
    \A u \in Urls, limit \in 0..MaxLimit :
        LET h == getSiteHistory(u, limit)
            all == Reverse(Filter(historyStore, u))
        IN /\ \A i \in 1..Len(h) : h[i].url = u
           /\ Len(h) <= limit
           /\ h = SubSeq(all, 1, Min(limit, Len(all)))

\* The results persisted for url u since the last clear, in order.
PersistedFor(u) == Filter(persisted, u)

\* How many of them have this status.
CountOf(u, status) ==
    Cardinality({i \in 1..Len(persisted) :
                    persisted[i].url = u /\ persisted[i].status = status})

\* C11: a url has SiteMetrics exactly when results are persisted for it, and
\* then successfulChecks is the number of persisted UP results, totalChecks the
\* number of persisted results, and uptimePercentage is 100 times their
\* quotient, whatever the order of the results; 7 UP and 3 DOWN give 70.
C11_UptimeIsShareOfUpResults ==
    \A u \in Urls :
        LET ups == CountOf(u, "UP")
            downs == CountOf(u, "DOWN")
        IN IF ups + downs = 0 THEN metricsStore[u] = None
           ELSE /\ metricsStore[u] # None
                /\ metricsStore[u].successfulChecks = ups
                /\ metricsStore[u].totalChecks = ups + downs
                /\ metricsStore[u].uptimePercentage[1] * (ups + downs)
                      = 100 * ups * metricsStore[u].uptimePercentage[2]
                /\ (ups = 7 /\ downs = 3)
                      => metricsStore[u].uptimePercentage = <<70, 1>>

\* C11 witness: 7 UP and 3 DOWN results, the first DOWN and the last UP, and
\* the uptime is 70.
C11_Witness ==
    /\ CountOf("A", "UP") = 7
    /\ CountOf("A", "DOWN") = 3
    /\ PersistedFor("A")[1].status = "DOWN"
    /\ PersistedFor("A")[10].status = "UP"
    /\ metricsStore["A"].uptimePercentage = <<70, 1>>

\* The length of the run of DOWN results that ends a sequence of results.
RECURSIVE TrailingDowns(_)
TrailingDowns(s) ==
    IF s = <<>> THEN 0
    ELSE IF s[Len(s)].status = "DOWN" THEN 1 + TrailingDowns(SubSeq(s, 1, Len(s) - 1))
    ELSE 0

\* C12: consecutiveFailures of a url is the length of the run of DOWN results
\* that ends the results persisted for it: 0 after an UP result, one more
\* after each DOWN result.
C12_ConsecutiveFailuresIsTrailingRun ==
    \A u \in Urls :
        PersistedFor(u) # <<>>
        => /\ metricsStore[u] # None
           /\ metricsStore[u].consecutiveFailures = TrailingDowns(PersistedFor(u))

\* C12 witness: DOWN, UP, DOWN, DOWN: the UP result reset the count and the
\* two DOWN results after it are counted.
C12_Witness ==
    /\ Len(PersistedFor("A")) = 4
    /\ [i \in 1..4 |-> PersistedFor("A")[i].status] = <<"DOWN", "UP", "DOWN", "DOWN">>
    /\ metricsStore["A"].consecutiveFailures = 2

\* C13: totalChecks of a url is the number of results persisted for it since
\* the last clear, a result persisted twice counting twice.
C13_TotalChecksCountsEveryPersist ==
    \A u \in Urls :
        TotalChecks(metricsStore, u) = Len(PersistedFor(u))

\* C13 witness: the same result was persisted twice in a row and totalChecks
\* is 2.
C13_Witness ==
    /\ Len(PersistedFor("A")) = 2
    /\ PersistedFor("A")[1] = PersistedFor("A")[2]
    /\ statusStore["A"] = PersistedFor("A")[2]
    /\ metricsStore["A"].totalChecks = 2

\* This step is a call of the limiter's method `op` (time does not pass in it).
Calls(op) == now' = now /\ call'.op = op

\* lastRefill of the url's bucket once refilled at `now`.
RefillTimeNow(u) ==
    IF buckets[u] = None THEN now
    ELSE IF now > buckets[u].lastRefill THEN now
    ELSE buckets[u].lastRefill

\* C14: consume(key) refills the key's bucket and then, if it holds at least
\* one token, returns true and takes exactly one token; otherwise it returns
\* false and leaves the tokens at the refilled value.  No other bucket changes.
C14_ConsumeTakesOneTokenOrNothing ==
    [][Calls("consume") =>
          LET u == call'.arg
              refilled == TokensNow(u)
          IN /\ call'.ret = (refilled >= WindowMs)
             /\ buckets'[u].tokens
                   = (IF refilled >= WindowMs THEN refilled - WindowMs ELSE refilled)
             /\ buckets'[u].lastRefill = RefillTimeNow(u)
             /\ \A v \in Urls \ {u} : buckets'[v] = buckets[v]]_vars

\* C14 witness: a consume was denied after time had passed since the bucket
\* was emptied; the bucket holds the refilled part of a token.
C14_Witness ==
    /\ call.op = "consume"
    /\ call.ret = FALSE
    /\ buckets[call.arg].tokens > 0
    /\ buckets[call.arg].tokens < WindowMs
    /\ buckets[call.arg].lastRefill = now
    /\ now > 0

\* C15: a bucket comes into being only by a call for its key, full (less the
\* token a consume takes at once) and stamped with the current time, and the
\* tokens of every bucket stay between 0 and burst, whatever is called when.
C15_BucketsLazyFullAndWithinBurst ==
    [][\A u \in Urls :
          /\ buckets'[u] # None
             => /\ buckets'[u].tokens >= 0
                /\ buckets'[u].tokens <= burst * WindowMs
          /\ (buckets[u] = None /\ buckets'[u] # None)
             => /\ call'.arg = u
                /\ call'.op \in {"consume", "isAllowed", "getTokenCount",
                                  "getTimeUntilNextToken"}
                /\ buckets'[u].lastRefill = now
                /\ buckets'[u].tokens
                      = burst * WindowMs - (IF call'.op = "consume" THEN WindowMs ELSE 0)]_vars

\* C15 witness: a call a whole window after time 0 found the bucket full,
\* refilled at that time and holding no more than burst.
C15_Witness ==
    \E u \in Urls :
        /\ buckets[u] # None
        /\ buckets[u].tokens = burst * WindowMs
        /\ buckets[u].lastRefill = 1000
        /\ windowSec = 1
        /\ call.op = "getTokenCount"
        /\ call.arg = u
        /\ call.ret = burst

NotPositiveNumber(x) == x.t # "number" \/ x.v <= 0

\* C20: createRateLimiter throws, and no limiter exists, exactly when burst or
\* windowSec is not a positive number; otherwise the limiter exists with
\* these two values and no bucket.
C20_ConstructionFailsIffNotPositive ==
    [][Calls("createRateLimiter") =>
          IF NotPositiveNumber(call'.burst) \/ NotPositiveNumber(call'.windowSec)
          THEN /\ call'.ret = "throws"
               /\ ~Created'
               /\ UNCHANGED <<burst, windowSec, buckets>>
          ELSE /\ call'.ret = "limiter"
               /\ Created'
               /\ burst' = call'.burst.v
               /\ windowSec' = call'.windowSec.v
               /\ \A u \in Urls : buckets'[u] = None]_vars

\* C20 witness: a positive burst with windowSec 0 was refused and no limiter
\* exists.
C20_Witness ==
    /\ call.op = "createRateLimiter"
    /\ call.ret = "throws"
    /\ call.burst = Num(2)
    /\ call.windowSec = Num(0)
    /\ ~Created

\* A CheckResult that is not valid: url missing, status neither UP nor DOWN,
\* responseTime negative, or checkedAt missing.
InvalidCheckResult(r) ==
    \/ r.url = ""
    \/ r.status \notin {"UP", "DOWN"}
    \/ r.responseTime < 0
    \/ r.checkedAt = Never

\* Invocation p takes a step.
Steps(p) == pc'[p] # pc[p] \/ input'[p] # input[p]

\* C17 as stated: no step of the handling of an invalid CheckResult changes
\* the status, metrics or history store or a token bucket or shows a
\* notification, and its handling ends in an error.
C17_InvalidResultChangesNothing ==
    [][\A p \in Procs :
          (Steps(p) /\ InvalidCheckResult(input'[p]))
          => /\ UNCHANGED <<statusStore, metricsStore, historyStore, buckets, notes>>
             /\ pc'[p] \in Free => pc'[p] \in {"aborted", "rejected"}]_vars

\* Invocation p begins in this step: the event is received and the previous
\* status is read.
Receives(p) == pc[p] \in Free /\ (pc'[p] # pc[p] \/ input'[p] # input[p])

\* C18 as stated: a check whose reading of the previous record meets an error,
\* thrown by getPreviousStatus or raised by the storage, is aborted there:
\* nothing is persisted and nothing is shown.
C18_AnyReadErrorAborts ==
    [][\A p \in Procs :
          (Receives(p) /\ (getPreviousStatusThrows(input'[p].url) \/ fault = "read"))
          => /\ pc'[p] = "aborted"
             /\ UNCHANGED <<statusStore, metricsStore, historyStore, notes>>]_vars

\* C18 amended: a check for which getPreviousStatus throws (no url) is aborted
\* there, with nothing persisted, nothing shown and no token taken, and the
\* check after it is handled as usual; a read refused by the storage is not
\* such an error: the check goes on as one that found no previous record.
C18_ThrownReadErrorAborts ==
    [][\A p \in Procs :
          /\ (Receives(p) /\ input'[p].url = "")
             => /\ pc'[p] = "aborted"
                /\ UNCHANGED <<statusStore, metricsStore, historyStore, buckets,
                               notes, persisted>>
          /\ (Receives(p) /\ input'[p].url # "")
             => /\ pc'[p] = "classify"
                /\ previousResult'[p]
                      = (IF fault = "read" THEN None ELSE statusStore[input'[p].url])]_vars

\* C18 witness: three checks were received with the storage in order, all have
\* ended, and only two notifications were shown: one check was aborted and a
\* later one was handled to its end.
C18_Witness ==
    /\ pc[1] = "idle"
    /\ nchecks = 3
    /\ Len(notes) = 2
    /\ Len(persisted) = 2
    /\ fault = "none"
    /\ statusStore[LastNote.result.url] = LastNote.result

\* C19: while reads are refused a check is handled as a first observation and
\* the read queries return nothing; while writes are refused updateLastStatus
\* changes no file; in both cases the handler returns normally, showing what
\* it shows otherwise, and what was shown before stays shown.
C19_StorageFailuresAreSwallowed ==
    [][/\ \A p \in Procs :
            /\ (Receives(p) /\ fault = "read" /\ input'[p].url # "")
               => /\ previousResult'[p] = None
                  /\ pc'[p] = "classify"
            /\ (Classifies(p) /\ previousResult[p] = None)
               => pc'[p] = "storeInitial"
            /\ (pc[p] \in {"storeInitial", "storeRoutine", "storeChange"} /\ Steps(p))
               => /\ pc'[p] = "idle"
                  /\ SubSeq(notes', 1, Len(notes)) = notes
                  /\ Len(notes') = Len(notes) + (IF pc[p] = "storeChange" THEN 0 ELSE 1)
                  /\ fault = "write"
                     => UNCHANGED <<statusStore, metricsStore, historyStore>>
       /\ fault = "read"
          => /\ \A u \in Urls : getSnapshot[u] = None /\ getPreviousStatus(u) = None
             /\ \A u \in Urls, limit \in 1..MaxLimit : getSiteHistory(u, limit) = <<>>]_vars

\* C19 witness: a status-change alert was shown, the write of its check failed,
\* and the handler has returned: the alert stays shown and the stored record
\* still has the previous status.
C19_Witness ==
    /\ pc[1] = "idle"
    /\ notes # <<>>
    /\ LastNote.kind = "change"
    /\ fault = "write"
    /\ statusStore[LastNote.result.url] # None
    /\ statusStore[LastNote.result.url].status = LastNote.previousStatus
    /\ LastNote.result.status # LastNote.previousStatus

\* The last element of a non-empty sequence.
Last(s) == s[Len(s)]

\* C21: getPreviousStatus(url) returns nothing exactly when no result of url
\* has been persisted since the last clear, and otherwise the result of url
\* persisted last; a check being received reads exactly that.
C21_PreviousStatusIsLastPersisted ==
    \A u \in Urls :
        /\ getPreviousStatus(u) = None <=> PersistedFor(u) = <<>>
        /\ PersistedFor(u) # <<>> => getPreviousStatus(u) = Last(PersistedFor(u))
        /\ (pc[1] = "classify" /\ input[1].url = u)
           => previousResult[1] = getPreviousStatus(u)

\* C21 witness: after a clear, one site has a newly persisted result, which
\* getPreviousStatus returns, and the site checked before the clear has none.
C21_Witness ==
    /\ clearedAt > 0
    /\ pc[1] = "idle"
    /\ \E u, v \in Urls :
          /\ notes[1].result.url = u
          /\ getPreviousStatus(u) = None
          /\ PersistedFor(v) # <<>>
          /\ getPreviousStatus(v) = Last(PersistedFor(v))

\* This step is a call of clearAllStatuses.
Clears == persisted # <<>> /\ persisted' = <<>>

\* C22: clearAllStatuses leaves the status store, the metrics store and the
\* history log empty; a check received when nothing of its url has been
\* persisted since finds no previous record, and when it is persisted as a
\* first observation its metrics have totalChecks = 1.
C22_ClearEmptiesAllStores ==
    [][/\ Clears
          => /\ \A u \in Urls : statusStore'[u] = None /\ metricsStore'[u] = None
             /\ historyStore' = <<>>
       /\ \A p \in Procs :
             /\ (Receives(p) /\ PersistedFor(input'[p].url) = <<>>)
                => previousResult'[p] = None
             /\ Stores(p, "storeInitial")
                => /\ metricsStore'[input[p].url].totalChecks = 1
                   /\ ShowsOnly("initial", input[p], "none")]_vars

\* C22 witness: a site checked before a clear was checked again after it; the
\* check was announced as an initial one and the site's totalChecks is 1.
C22_Witness ==
    /\ clearedAt > 0
    /\ pc[1] = "idle"
    /\ Len(notes) > clearedAt
    /\ LastNote.kind = "initial"
    /\ \E i \in 1..clearedAt : notes[i].result.url = LastNote.result.url
    /\ metricsStore[LastNote.result.url].totalChecks = 1
    /\ Len(historyStore) = 1

\* C23: a step of the handling of a check of one site leaves the status
\* record, the metrics and the token bucket of every other site as they
\* were, under any interleaving of the invocations, and what a check reads
\* as its previous status is the record of its own site.
C23_OtherSitesUntouched ==
    [][\A p \in Procs :
          Steps(p)
          => /\ \A v \in Urls \ {input'[p].url} :
                   /\ statusStore'[v] = statusStore[v]
                   /\ metricsStore'[v] = metricsStore[v]
                   /\ buckets'[v] = buckets[v]
             /\ Receives(p) => previousResult'[p] = statusStore[input'[p].url]]_vars

\* C23 witness: a site's first check was persisted between two checks of
\* another site, the second of them a status change that took a token; the
\* site still has that record, one check in its metrics and no bucket.
C23_Witness ==
    /\ AllIdle
    /\ Len(persisted) = 3
    /\ persisted[1].url = persisted[3].url
    /\ persisted[2].url # persisted[1].url
    /\ persisted[1].status # persisted[3].status
    /\ statusStore[persisted[2].url] = persisted[2]
    /\ metricsStore[persisted[2].url].totalChecks = 1
    /\ buckets[persisted[2].url] = None
    /\ buckets[persisted[1].url] # None

\* C24: whatever record of the site is stored, the storing step of an
\* invocation replaces it by that invocation's result, so that of two
\* overlapping invocations of one site the one that stores last leaves its
\* result in the status store and the other's is no longer there.
C24_LastWriteWins ==
    [][/\ \A p \in Procs :
             (pc[p] \in {"storeInitial", "storeRoutine", "storeChange"} /\ Steps(p))
             => /\ statusStore'[input[p].url] = input[p]
                /\ persisted' = Append(persisted, input[p])
       /\ \A u \in Urls :
             PersistedFor(u)' # <<>> => statusStore'[u] = Last(PersistedFor(u))']_vars

\* C24 witness: two invocations of one site overlapped: both found no record
\* and were announced as initial; the one received first, with the earlier
\* checkedAt, stored last, and its result is the record; the other's is lost.
C24_Witness ==
    /\ AllIdle
    /\ Len(persisted) = 2
    /\ Len(notes) = 2
    /\ notes[1].kind = "initial" /\ notes[2].kind = "initial"
    /\ persisted[1].url = persisted[2].url
    /\ persisted[2].checkedAt < persisted[1].checkedAt
    /\ statusStore[persisted[2].url] = persisted[2]
    /\ statusStore[persisted[2].url] # persisted[1]

\* The urls with a result persisted since the last clear.
Checked == {u \in Urls : PersistedFor(u) # <<>>}

\* The sum of the response times of a sequence of results.
RECURSIVE SumResponseTime(_)
SumResponseTime(s) ==
    IF s = <<>> THEN 0 ELSE s[1].responseTime + SumResponseTime(Tail(s))

\* The share of UP results of a url in percent, and the mean of its response
\* times, from the persisted results.
UptimeOf(u) == Frac(100 * CountOf(u, "UP"), Len(PersistedFor(u)))

MeanResponseTimeOf(u) == Frac(SumResponseTime(PersistedFor(u)), Len(PersistedFor(u)))

\* The sum of f[u] over the urls of S.
RECURSIVE SumOver(_, _)
SumOver(f, S) ==
    IF S = {} THEN <<0, 1>>
    ELSE LET u == CHOOSE v \in S : TRUE IN FracAdd(f[u], SumOver(f, S \ {u}))

\* This step is a call of getSystemMetrics.
GetsSystemMetrics ==
    /\ call'.op = "getSystemMetrics"
    /\ persisted' = persisted
    /\ now' = now

\* C25: getSystemMetrics returns as totalSites the number of sites with a
\* status record, as upSites and downSites how many of these records are UP
\* and DOWN, which add up to totalSites; as overallUptimePercentage and
\* averageResponseTime the sum of the sites' uptime percentages and mean
\* response times divided by the number of sites with metrics, every site
\* counting once however many checks it has; and 100 and 0 when there is none.
C25_SystemMetricsAreUnweightedMeans ==
    [][GetsSystemMetrics
       => LET r == call'.ret
              n == Cardinality(Checked)
          IN /\ r.totalSites = n
             /\ r.upSites = Cardinality({u \in Checked : Last(PersistedFor(u)).status = "UP"})
             /\ r.downSites =
                  Cardinality({u \in Checked : Last(PersistedFor(u)).status = "DOWN"})
             /\ r.upSites + r.downSites = r.totalSites
             /\ n = 0 => /\ r.overallUptimePercentage = <<100, 1>>
                         /\ r.averageResponseTime = <<0, 1>>
             /\ n > 0 => /\ FracTimes(r.overallUptimePercentage, <<n, 1>>)
                            = SumOver([u \in Urls |-> UptimeOf(u)], Checked)
                         /\ FracTimes(r.averageResponseTime, <<n, 1>>)
                            = SumOver([u \in Urls |-> MeanResponseTimeOf(u)], Checked)
                         /\ r.lastUpdate = Last(persisted).checkedAt
                         /\ r.lastUpdate <= now]_vars

\* C25 witness: one site has two UP results, the other one DOWN result with a
\* different response time; getSystemMetrics has returned 2 sites, 1 up and
\* 1 down, an overall uptime of 50 and the mean of the two sites' means.
C25_Witness ==
    /\ call.op = "getSystemMetrics"
    /\ Len(persisted) = 3
    /\ \E u, v \in Urls :
          /\ Len(PersistedFor(u)) = 2 /\ CountOf(u, "UP") = 2
          /\ Len(PersistedFor(v)) = 1 /\ CountOf(v, "DOWN") = 1
          /\ MeanResponseTimeOf(u) = <<25, 1>>
          /\ MeanResponseTimeOf(v) = <<40, 1>>
    /\ call.ret.totalSites = 2 /\ call.ret.upSites = 1 /\ call.ret.downSites = 1
    /\ call.ret.overallUptimePercentage = <<50, 1>>
    /\ call.ret.averageResponseTime = <<65, 2>>

\* The last thing shown is a rate-limited message: the check handled last
\* was a suppressed transition.
AfterSuppressed == notes # <<>> /\ LastNote.kind = "suppressed"

\* C26: a suppressed transition from s to s' changes none of the stores, so s
\* stays the stored status; the next check reads it, and if its status is s'
\* it is a transition again (the bucket is refilled and asked for a token and
\* an alert or a rate-limited message naming s is shown), while if its status
\* is s it is unchanged (the bucket is not touched and only the routine
\* message is shown); totalChecks counts the checks that were not suppressed.
C26_SuppressedKeepsStaleStatus ==
    [][/\ (Classifies(1) /\ pc'[1] = "idle")
          => /\ UNCHANGED <<statusStore, metricsStore, historyStore, persisted>>
             /\ AfterSuppressed'
       /\ AfterSuppressed
          => LET s == LastNote.previousStatus
                 observed == LastNote.result.status
             IN /\ observed # s
                /\ statusStore["A"].status = s
                /\ Receives(1) => previousResult'[1] = statusStore["A"]
                /\ (Classifies(1) /\ input[1].status = observed)
                   => /\ buckets'["A"].lastRefill = now
                      /\ \/ /\ ShowsOnly("change", input[1], s)
                            /\ buckets'["A"].tokens = TokensNow("A") - WindowMs
                         \/ /\ ShowsOnly("suppressed", input[1], s)
                            /\ buckets'["A"].tokens = TokensNow("A")
                /\ (Classifies(1) /\ input[1].status = s)
                   => /\ pc'[1] = "storeRoutine"
                      /\ UNCHANGED <<buckets, notes>>
                /\ Stores(1, "storeRoutine")
                   => /\ ShowsOnly("routine", input[1], s)
                      /\ PersistsNow(input[1])
       /\ pc'[1] = "idle"
          => /\ TotalChecks(metricsStore', "A") = Cardinality(AcceptedFor("A"))'
             /\ Len(persisted') = Cardinality(AcceptedFor("A"))']_vars

\* C26 witness: a suppressed transition was followed, after the bucket had
\* refilled, by a check with the same observed status, which was alerted as a
\* change from the stale status; another suppressed transition was followed
\* by a check with the stored status, which was shown as routine; the two
\* suppressed checks are in none of the counts.
C26_Witness ==
    /\ pc[1] = "idle"
    /\ \E i \in 1..(Len(notes) - 1) :
          /\ notes[i].kind = "suppressed"
          /\ notes[i + 1].kind = "change"
          /\ notes[i + 1].result.status = notes[i].result.status
          /\ notes[i + 1].previousStatus = notes[i].previousStatus
    /\ \E j \in 1..(Len(notes) - 1) :
          /\ notes[j].kind = "suppressed"
          /\ notes[j + 1].kind = "routine"
          /\ notes[j + 1].result.status = notes[j].previousStatus
    /\ Len(notes) = 6
    /\ metricsStore["A"].totalChecks = 4

Ulps == Pow2(MantissaBits)

\* averageResponseTime of the first site as a fraction, and the sum and the
\* number of the response times persisted for it.
AvgA == metricsStore["A"].averageResponseTime

SumA == SumResponseTime(PersistedFor("A"))

CountA == Len(PersistedFor("A"))

C29_ReadOnlyCallsChangeNoConsume ==
    [][/\ (call'.op \in {"isAllowed", "getTokenCount", "getTimeUntilNextToken"}
           /\ buckets' # buckets)
          => FracLeq(buckets["A"].tokens, buckets'["A"].tokens)
       /\ (call'.op = "consume" /\ buckets' # buckets)
          => call'.ret[1] = call'.ret[2]]_vars

\* The requests the checker has finished.
Finished == IF checker.pc = "idle" THEN checker.handled ELSE checker.handled - 1

\* The probe of the current request got an HTTP response with a code in 200..399.
ProbeUp == checker.outcome.kind = "response" /\ checker.outcome.status \in 200..399

\* What the checker has emitted for the requests so far: for each finished
\* request one check.result and then one status.stream with the same result,
\* for the current one the check.result once its emit has been called.
EmittedOncePerRequest ==
    /\ Len(emitted) = 2 * Finished + (IF checker.pc = "emitStatusStream" THEN 1 ELSE 0)
    /\ \A i \in 1..Len(emitted) :
          /\ emitted[i].topic = IF i % 2 = 1 THEN "check.result" ELSE "status.stream"
          /\ i % 2 = 0 => emitted[i].data = emitted[i - 1].data
    /\ (checker.handled > 0 /\ checker.pc \in {"emitStatusStream", "idle"})
          => emitted[2 * checker.handled - 1].data = checker.result

\* The result of the current request, once there is one: its status is UP
\* exactly when the probe got a response with a code in 200..399, DOWN otherwise.
StatusFollowsProbe ==
    (checker.pc \in {"emitCheckResult", "emitStatusStream"}
        \/ (checker.handled > 0 /\ checker.pc = "idle"))
        => /\ checker.result # None
           /\ checker.result.url = checker.url
           /\ checker.result.status = IF ProbeUp THEN "UP" ELSE "DOWN"

\* C30: for every request handed to the website checker exactly one
\* check.result is emitted, followed by one status.stream with the same result,
\* whatever the probe did (a response, an error, the timeout, a url that is
\* not fetched at all) and whether or not an emit is rejected; the result's
\* status is UP exactly when a response with a code in 200..399 was received
\* and DOWN in every other case; and every request gets that far.
C30_OneResultPerRequest ==
    /\ [](EmittedOncePerRequest /\ StatusFollowsProbe)
    /\ \A r \in 1..CheckRequests : (checker.handled = r) ~> (Len(emitted) = 2 * r)

\* Two requests are finished: the first got a 399 and is UP, the second timed
\* out and is DOWN, and its check.result emit was rejected.
C30_Witness ==
    /\ checker.pc = "idle"
    /\ Len(emitted) = 4
    /\ emitted[1].data.status = "UP" /\ emitted[1].data.code = 399
    /\ emitted[3].topic = "check.result" /\ ~emitted[3].delivered
    /\ emitted[3].data.status = "DOWN"
    /\ emitted[3].data.error = "Request timeout (10s)"
    /\ emitted[4].topic = "status.stream" /\ emitted[4].data = emitted[3].data

\* The last notification so far is the rate-limited message of a change of
\* site A to status s, and the stored status is still the other one.
SuppressedChange(s) ==
    /\ pc[1] = "idle"
    /\ notes # <<>>
    /\ Last(notes).kind = "suppressed"
    /\ Last(notes).result.status = s
    /\ statusStore["A"] # None
    /\ statusStore["A"].status # s

\* The last notification is a status change of site A to s and the stored
\* record has the status s.
ChangeShown(s) ==
    /\ notes # <<>>
    /\ Last(notes).kind = "change"
    /\ Last(notes).result.status = s
    /\ statusStore["A"] # None
    /\ statusStore["A"].status = s

\* C31: a suppressed status change of a site is not suppressed forever: when
\* the site stays at the new status while its checks keep arriving and time
\* keeps advancing, a status change notification is eventually shown and the
\* stored record takes the new status (unless a check sees the old status again).
C31_SuppressedChangeIsEventuallyShown ==
    \A s \in Statuses :
        SuppressedChange(s) ~> (ChangeShown(s) \/ (input[1] # None /\ input[1].status # s))

\* A change to DOWN was suppressed in the first instant and has been shown at
\* a later one.
C31_Witness ==
    /\ ChangeShown("DOWN")
    /\ Last(notes).at > 0
    /\ \E n \in 1..Len(notes) :
          /\ notes[n].kind = "suppressed" /\ notes[n].result.status = "DOWN"
          /\ notes[n].at = 0
          /\ \A i \in n..(Len(notes) - 1) : notes[i].kind = "suppressed"

\* How many times the stored status of the url has changed.
StoredTransitions(u) ==
    Cardinality({i \in 2..Len(PersistedFor(u)) :
                    PersistedFor(u)[i].status # PersistedFor(u)[i - 1].status})

\* How many status change notifications have been shown for the url.
ChangesShown(u) == Cardinality({i \in NotesFor(u) : notes[i].kind = "change"})

\* C32: a single transition of the stored status of a site produces at most
\* one status change notification and takes at most one token, also when
\* invocations for the site overlap: once every invocation has returned,
\* there are no more notifications than stored transitions, and (before any
\* refill) no more tokens are missing from the site's bucket than that.
C32_OneAlertPerStoredTransition ==
    (\A p \in Procs : pc[p] \in Free)
        => \A u \in Urls :
              /\ ChangesShown(u) <= StoredTransitions(u)
              /\ (now = 0 /\ buckets[u] # None)
                    => burst * WindowMs - buckets[u].tokens
                          <= WindowMs * StoredTransitions(u)

\* This step takes a token from the url's bucket: the bucket holds one token
\* less than it would hold refilled.
TakesToken(u) ==
    /\ buckets'[u] # None
    /\ buckets'[u] # buckets[u]
    /\ buckets'[u].tokens = TokensNow(u) - WindowMs

\* This step shows a notification of this kind for the url, and nothing else.
ShowsFor(kind, u) ==
    /\ Len(notes') = Len(notes) + 1
    /\ SubSeq(notes', 1, Len(notes)) = notes
    /\ Last(notes').kind = kind
    /\ Last(notes').result.url = u

\* C33: tokens are taken only by status transitions that are shown: a step
\* takes a token of a site exactly when it shows a status change notification
\* for it, and then it takes one; a bucket that changes otherwise is only
\* refilled; the steps of an initial, a routine and an aborted check leave the
\* buckets alone, and a suppressed one takes nothing.
C33_TokensOnlyForShownChanges ==
    [][/\ \A u \in Urls :
             /\ TakesToken(u) <=> ShowsFor("change", u)
             /\ (buckets'[u] # buckets[u] /\ ~TakesToken(u))
                   => buckets'[u].tokens = TokensNow(u)
             /\ ShowsFor("suppressed", u) => ~TakesToken(u)
       /\ \A p \in Procs :
             /\ (Classifies(p) /\ ~IsTransition(p)) => UNCHANGED buckets
             /\ (pc[p] \in Free /\ pc'[p] \notin Free) => UNCHANGED buckets
             /\ (pc[p] # "aborted" /\ pc'[p] = "aborted") => UNCHANGED <<buckets, notes>>
             /\ (pc[p] \in {"storeInitial", "storeRoutine", "storeChange"}
                 /\ pc'[p] # pc[p]) => UNCHANGED buckets]_vars

\* Three checks have been handled: the initial one of a site, one that was
\* shown as a change, and one that was aborted; one token is missing.
C33_Witness ==
    /\ nchecks = 3
    /\ \E p \in Procs : pc[p] = "aborted"
    /\ Len(notes) = 2
    /\ notes[1].kind = "initial"
    /\ notes[2].kind = "change"
    /\ buckets[notes[2].result.url] # None
    /\ buckets[notes[2].result.url].tokens = burst * WindowMs - WindowMs

\* The sites with a stored record of this status.
SitesWith(status) == {u \in Keys(statusStore) : statusStore[u].status = status}

\* The step serves GET /healthz.
ServesHealth == call'.op = "GET /healthz"

\* C34: without storage failures, a site's stored status is DOWN exactly when
\* its metrics count consecutive failures, in every state; so the activeAlerts
\* of the health endpoint is the number of sites whose last known status is DOWN.
C34_DownIffConsecutiveFailures ==
    [][/\ \A u \in Keys(statusStore') :
             /\ metricsStore'[u] # None
             /\ statusStore'[u].status = "DOWN"
                   <=> metricsStore'[u].consecutiveFailures > 0
       /\ ServesHealth
             => call'.ret.body.metrics.activeAlerts = Cardinality(SitesWith("DOWN"))]_vars

\* The health endpoint has reported two active alerts while one site is up
\* after having been down.
C34_Witness ==
    /\ call.op = "GET /healthz"
    /\ call.ret.body.metrics.activeAlerts = 2
    /\ Cardinality(SitesWith("DOWN")) = 2
    /\ \E u \in SitesWith("UP") : metricsStore[u].totalChecks = 2 /\ metricsStore[u].successfulChecks = 1
    /\ \E u \in SitesWith("UP") : metricsStore[u].lastDownTime # Never

\* The mean of the uptime percentages of the sites that have a stored record,
\* 100 when there is none.
MeanUptimeOfRecorded ==
    IF Keys(statusStore) = {} THEN <<100, 1>>
    ELSE FracOver(SumOver([u \in HealthSites |->
                              IF metricsStore[u] # None
                              THEN metricsStore[u].uptimePercentage ELSE <<0, 1>>],
                          Keys(statusStore)),
                  Cardinality(Keys(statusStore)))

\* C35: without storage failures the urls that have a stored record are the
\* urls that have metrics, in every state, so that getSystemMetrics averages
\* over exactly the sites it counts in totalSites: the uptime the health
\* endpoint reports is the mean over the sites that have a record.
C35_RecordsAndMetricsHaveTheSameSites ==
    [][/\ Keys(statusStore') = Keys(metricsStore')
       /\ \A u \in Keys(metricsStore') : metricsStore'[u].url = u
       /\ ServesHealth
             => call'.ret.body.metrics.totalUptime = MeanUptimeOfRecorded]_vars

\* Two sites have a record and metrics, one always up and one always down,
\* the third has neither, and the endpoint has reported their mean.
C35_Witness ==
    /\ call.op = "GET /healthz"
    /\ Cardinality(Keys(statusStore)) = 2
    /\ Keys(metricsStore) = Keys(statusStore)
    /\ call.ret.body.metrics.totalUptime = <<50, 1>>
    /\ \E u \in Keys(metricsStore) : metricsStore[u].uptimePercentage = <<0, 1>>

\* Invocation p returns from updateLastStatus in this step.
StoresNow(p) ==
    pc[p] \in {"storeInitial", "storeRoutine", "storeChange"} /\ pc'[p] # pc[p]

\* C36: a failure to read the status store while a check of a site is
\* persisted loses no other site's record: after the write every other site's
\* record is still there, unchanged.
C36_ReadFailureLosesNoOtherRecord ==
    [][\A p \in Procs :
          (StoresNow(p) /\ fault = "read")
             => \A v \in Urls \ {input[p].url} : statusStore'[v] = statusStore[v]]_vars

\* C37: when getTimeUntilNextToken(key) has returned t > 0 at the instant T
\* and consume(key) has not been called since, consume(key) at any instant
\* from T + t on is granted; and when isAllowed(key) has just returned true,
\* consume(key) at the same instant is granted.
C37_PromisedTokenIsGranted ==
    [][call'.op = "consume"
          => /\ (call.due # Never /\ now >= call.due) => call'.ret
             /\ (call.op = "isAllowed" /\ call.at = now /\ call.ret) => call'.ret]_vars

\* The metrics of the first site, and the checks of it that did not succeed.
MetricsA == metricsStore["A"]

FailedA == MetricsA.totalChecks - MetricsA.successfulChecks

\* The counters, the uptime and the smallest response time of the first site
\* are within their bounds.
CountersWithinBounds ==
    /\ MetricsA.totalChecks >= 1
    /\ 0 <= MetricsA.successfulChecks
    /\ MetricsA.successfulChecks <= MetricsA.totalChecks
    /\ MetricsA.consecutiveFailures <= FailedA
    /\ FracLeq(<<0, 1>>, MetricsA.uptimePercentage)
    /\ FracLeq(MetricsA.uptimePercentage, <<100, 1>>)
    /\ MetricsA.minResponseTime # Infinity

\* The average of the first site is between its smallest and its largest
\* response time.
AverageWithinBounds ==
    /\ FracLeq(<<MetricsA.minResponseTime, 1>>, MetricsA.averageResponseTime)
    /\ FracLeq(MetricsA.averageResponseTime, <<MetricsA.maxResponseTime, 1>>)

\* C38 as claimed: for a url with SiteMetrics (totalChecks >= 1) and
\* non-negative response times, in every reachable state 0 <=
\* successfulChecks <= totalChecks, consecutiveFailures <= totalChecks -
\* successfulChecks, 0 <= uptimePercentage <= 100, minResponseTime is finite,
\* and minResponseTime <= averageResponseTime <= maxResponseTime.
C38_MetricsStayWithinTheirBounds ==
    MetricsA # None => CountersWithinBounds /\ AverageWithinBounds

\* C38 as amended: the counters, the uptime and the smallest response time
\* are within their bounds in every reachable state; the average is between
\* the smallest and the largest response time while the response times are
\* whole numbers and totalChecks * maxResponseTime is small enough to be a
\* number itself (below 2^bits).
C38_MetricsWithinBoundsWhileSumsAreExact ==
    MetricsA # None
    => /\ CountersWithinBounds
       /\ MetricsA.totalChecks * MetricsA.maxResponseTime < Ulps => AverageWithinBounds

\* C38 witness: checks of both kinds with different response times, one of
\* them 0 ms, have been recorded; an earlier failure is followed by a success
\* and a last failure; the sums are exact, and the average, which rounding
\* has moved off the mean, lies strictly between the smallest and the largest
\* response time.
C38_Witness ==
    /\ MetricsA # None
    /\ MetricsA.totalChecks = BoundsChecks
    /\ MetricsA.successfulChecks > 0
    /\ MetricsA.consecutiveFailures > 0
    /\ MetricsA.consecutiveFailures < FailedA
    /\ MetricsA.minResponseTime = 0
    /\ MetricsA.maxResponseTime > 0
    /\ MetricsA.totalChecks * MetricsA.maxResponseTime < Ulps
    /\ MetricsA.averageResponseTime # Frac(SumA, CountA)
    /\ ~FracLeq(MetricsA.averageResponseTime, <<MetricsA.minResponseTime, 1>>)
    /\ ~FracLeq(<<MetricsA.maxResponseTime, 1>>, MetricsA.averageResponseTime)

\* The sites with a StatusRecord, and those of them whose last known status
\* is DOWN.
RecordedSites == Cardinality(Keys(statusStore))

DownSites == Cardinality(SitesWith("DOWN"))

\* C39: the health endpoint reports 'ok' exactly when no site's last known
\* status is DOWN, 'down' when at least one site is DOWN and the DOWN sites are
\* at least half of the sites with a StatusRecord, and 'degraded' when at
\* least one but fewer than half are DOWN.
C39_HealthStatusFollowsDownShare ==
    [][ServesHealth
          => /\ call'.ret.body.status = "ok" <=> DownSites = 0
             /\ (DownSites >= 1 /\ 2 * DownSites >= RecordedSites)
                => call'.ret.body.status = "down"
             /\ (DownSites >= 1 /\ 2 * DownSites < RecordedSites)
                => call'.ret.body.status = "degraded"]_vars

\* C39 witness: the endpoint has reported 'down' with exactly half of the
\* recorded sites DOWN.
C39_Witness ==
    /\ call.op = "GET /healthz"
    /\ call.ret.body.status = "down"
    /\ RecordedSites = 2
    /\ DownSites = 1

====
